---- MODULE Spec2Model ----
(***************************************************************************)
(* The HybridChunker pipeline of soliqai/backend/app/services/             *)
(* hybrid_chunker.py: Blocks -> Units -> Chunks.                           *)
(*                                                                         *)
(* A text is a sequence of one-character strings.  The Cyrillic keywords   *)
(* of the heading patterns are written in Latin capitals of the same       *)
(* length (GLAVA, STATQY, RAZDEL, BOBI, MODDAI), so that every length and  *)
(* token estimate is the one the code computes.                            *)
(***************************************************************************)
EXTENDS Integers, Sequences, FiniteSets, TLC

VARIABLES
    cfg,        \* the HybridChunker instance: target/max/min/overlap tokens
    input,      \* the caller's block list, the argument of chunk()
    pc,         \* the position of chunk() in its pipeline
    nblocks,    \* result of _normalize_blocks
    fblocks,    \* result of _remove_headers_footers
    units,      \* result of _blocks_to_units
    packed,     \* result of _pack_units
    merged,     \* result of _postprocess
    overlapped, \* the chunk list after the overlap stage
    out,        \* the list chunk() returns
    raised,     \* TRUE when a stage raised an exception
    limiter     \* a RateLimiter, the clock it reads and the requests it allowed

vars == <<cfg, input, pc, nblocks, fblocks, units, packed, merged, overlapped, out, raised, limiter>>

-----------------------------------------------------------------------------
(* Characters and elementary string operations                             *)

SP == " "
NL == "\n"
TAB == "\t"
CR == "\r"

\* what \s matches, within the alphabet of the model
WS == {SP, NL, TAB, CR}

Digits == {"0", "1", "2", "3", "4", "5", "6", "7", "8", "9"}

UpperSeq == <<"A","B","C","D","E","F","G","H","I","J","K","L","M",
              "N","O","P","Q","R","S","T","U","V","W","X","Y","Z">>

LowerSeq == <<"a","b","c","d","e","f","g","h","i","j","k","l","m",
              "n","o","p","q","r","s","t","u","v","w","x","y","z">>

Upper == {UpperSeq[i] : i \in 1..Len(UpperSeq)}

Lower == {LowerSeq[i] : i \in 1..Len(LowerSeq)}

Letters == Upper \cup Lower

\* str.upper() and str.lower(), one character
UpperChar(c) == IF c \in Lower THEN UpperSeq[CHOOSE i \in 1..Len(LowerSeq) : LowerSeq[i] = c] ELSE c

LowerChar(c) == IF c \in Upper THEN LowerSeq[CHOOSE i \in 1..Len(UpperSeq) : UpperSeq[i] = c] ELSE c

ToUpper(t) == [i \in 1..Len(t) |-> UpperChar(t[i])]

ToLower(t) == [i \in 1..Len(t) |-> LowerChar(t[i])]

SetMin(S) == CHOOSE x \in S : \A y \in S : x <= y

\* the indices 1..n in order
Indices(n) == [i \in 1..n |-> i]

\* the characters of t at the indices in K, in order
KeepIdx(t, K) ==
    LET kept == SelectSeq(Indices(Len(t)), LAMBDA i : i \in K)
    IN [k \in 1..Len(kept) |-> t[kept[k]]]

\* str.strip()
Strip(t) ==
    LET n == Len(t)
    IN IF \A i \in 1..n : t[i] \in WS THEN <<>>
       ELSE SubSeq(t,
                   CHOOSE i \in 1..n : t[i] \notin WS /\ \A j \in 1..(i - 1) : t[j] \in WS,
                   CHOOSE i \in 1..n : t[i] \notin WS /\ \A j \in (i + 1)..n : t[j] \in WS)

\* t[from:] with a 1-based first index
DropTo(t, from) == SubSeq(t, from, Len(t))

StartsWith(t, p) == Len(p) <= Len(t) /\ SubSeq(t, 1, Len(p)) = p

EndsWith(t, s) == Len(s) <= Len(t) /\ SubSeq(t, Len(t) - Len(s) + 1, Len(t)) = s

\* the maximal run of whitespace that starts at index i (empty if t[i] is none)
WsRunEnd(t, i) ==
    LET stops == {j \in i..Len(t) : t[j] \notin WS}
    IN IF stops = {} THEN Len(t) ELSE SetMin(stops) - 1

\* the first index of the maximal whitespace run that holds index i
WsRunStart(t, i) ==
    1 + CHOOSE j \in 0..i : (j = 0 \/ t[j] \notin WS) /\ \A k \in (j + 1)..i : t[k] \in WS

\* str.split("\n"): the stretches between the newlines
SplitLines(t) ==
    LET nl == SelectSeq(Indices(Len(t)), LAMBDA i : t[i] = NL)
    IN [k \in 1..(Len(nl) + 1) |->
          SubSeq(t, IF k = 1 THEN 1 ELSE nl[k - 1] + 1,
                    IF k = Len(nl) + 1 THEN Len(t) ELSE nl[k] - 1)]

\* Python evaluates eagerly: what a loop carries into its next iteration is a
\* value, never a pending computation
Evaluated(v) == v = v

RECURSIVE JoinLoop(_, _, _)
JoinLoop(joined, parts, sep) ==
    IF Evaluated(joined) /\ parts # <<>>
    THEN JoinLoop(joined \o sep \o Head(parts), Tail(parts), sep)
    ELSE joined

\* sep.join(parts)
Join(parts, sep) == IF parts = <<>> THEN <<>> ELSE JoinLoop(Head(parts), Tail(parts), sep)

PARA_SEP == <<NL, NL>>

-----------------------------------------------------------------------------
(* Token estimation                                                        *)

\* _estimate_tokens: max(1, int(len(text) / 3.6)); 1/3.6 = 5/18
_estimate_tokens(t) ==
    LET q == (Len(t) * 5) \div 18
    IN IF q < 1 THEN 1 ELSE q

\* int(tokens * CHARS_PER_TOKEN); 3.6 = 18/5
TokensToChars(n) == (n * 18) \div 5

-----------------------------------------------------------------------------
(* Normalization                                                           *)

\* text.replace("\r\n", "\n").replace("\r", "\n")
NormalizeLineEndings(t) ==
    LET kept == KeepIdx(t, {i \in 1..Len(t) : ~(t[i] = CR /\ i < Len(t) /\ t[i + 1] = NL)})
    IN [i \in 1..Len(kept) |-> IF kept[i] = CR THEN NL ELSE kept[i]]

\* re.sub(r"-\s*\n\s*", "", text): a hyphen and the whole whitespace run after
\* it are deleted when that run holds a newline
FixHyphenation(t) ==
    LET Broken(i) ==
            /\ t[i] = "-"
            /\ \E j \in (i + 1)..WsRunEnd(t, i + 1) : t[j] = NL
        Deleted(i) ==
            \/ Broken(i)
            \/ /\ t[i] \in WS
               /\ WsRunStart(t, i) > 1
               /\ Broken(WsRunStart(t, i) - 1)
    IN KeepIdx(t, {i \in 1..Len(t) : ~Deleted(i)})

\* re.sub(r"[ \t]+", " ", text)
NormalizeSpaces(t) ==
    LET Blank(i) == t[i] \in {SP, TAB}
        kept == KeepIdx(t, {i \in 1..Len(t) : ~(Blank(i) /\ i > 1 /\ Blank(i - 1))})
    IN [i \in 1..Len(kept) |-> IF kept[i] = TAB THEN SP ELSE kept[i]]

\* re.sub(r"\n{3,}", "\n\n", text)
CollapseNewlines(t) ==
    KeepIdx(t, {i \in 1..Len(t) : ~(i >= 3 /\ t[i] = NL /\ t[i - 1] = NL /\ t[i - 2] = NL)})

\* _PAGE_NUMBER.match(text): ^\s*\d{1,4}\s*$
IsPageNumber(t) ==
    LET s == Strip(t)
    IN Len(s) \in 1..4 /\ \A i \in 1..Len(s) : s[i] \in Digits

NormalizeText(t) ==
    Strip(CollapseNewlines(NormalizeSpaces(FixHyphenation(NormalizeLineEndings(t)))))

\* _normalize_blocks with the discarding test made on the text as it came in
_normalize_blocks_FilterFirst(blocks) ==
    LET kept == SelectSeq(blocks, LAMBDA b : ~(Strip(b.text) = <<>> \/ IsPageNumber(b.text)))
    IN [i \in 1..Len(kept) |->
          [text |-> NormalizeText(kept[i].text), page |-> kept[i].page, order |-> kept[i].order]]

_normalize_blocks(blocks) ==
    LET normalized == [i \in 1..Len(blocks) |->
                         [text |-> NormalizeText(blocks[i].text),
                          page |-> blocks[i].page, order |-> blocks[i].order]]
    IN SelectSeq(normalized, LAMBDA b : ~(b.text = <<>> \/ IsPageNumber(b.text)))

-----------------------------------------------------------------------------
(* Header / footer removal                                                 *)

\* fewer distinct pages than this: nothing is removed
MIN_PAGES == 3

\* how many blocks from each end of a page are candidates
BOUNDARY_BLOCKS == 2

\* a candidate line must be shorter than this
SHORT_LINE_LIMIT == 100

\* threshold = total_pages * 0.6, as the fraction 3/5
THRESHOLD_NUM == 3

THRESHOLD_DEN == 5

\* re.sub(r"\s+", " ", text.strip().lower())
CompareText(t) ==
    LET s == ToLower(Strip(t))
        kept == KeepIdx(s, {i \in 1..Len(s) : ~(s[i] \in WS /\ i > 1 /\ s[i - 1] \in WS)})
    IN [i \in 1..Len(kept) |-> IF kept[i] \in WS THEN SP ELSE kept[i]]

\* sorted(page_blocks, key=lambda b: b.order): a stable sort, so a block comes
\* after the blocks of a smaller order and the earlier blocks of its own order
SortedByOrder(blocks) ==
    LET n == Len(blocks)
        rank == [i \in 1..n |->
                   1 + Cardinality({j \in 1..n :
                                      \/ blocks[j].order < blocks[i].order
                                      \/ blocks[j].order = blocks[i].order /\ j < i})]
    IN [r \in 1..n |-> blocks[CHOOSE i \in 1..n : rank[i] = r]]

PageNumbers(blocks) == {blocks[i].page : i \in 1..Len(blocks)}

PageBlocks(blocks, p) == SelectSeq(blocks, LAMBDA b : b.page = p)

\* BoundaryCandidates without the two slices: every block of the page is a candidate
BoundaryCandidates_AllBlocks(page_blocks) == SortedByOrder(page_blocks)

\* sorted_blocks[:2] + sorted_blocks[-2:]
BoundaryCandidates(page_blocks) ==
    LET sorted == SortedByOrder(page_blocks)
        n == Len(sorted)
    IN SubSeq(sorted, 1, IF n < BOUNDARY_BLOCKS THEN n ELSE BOUNDARY_BLOCKS)
       \o SubSeq(sorted, IF n < BOUNDARY_BLOCKS THEN 1 ELSE n - BOUNDARY_BLOCKS + 1, n)

\* seen_on_page after the loop over one page's candidates
SeenOnPage(blocks, p) ==
    LET cands == BoundaryCandidates(PageBlocks(blocks, p))
        normalized == [i \in 1..Len(cands) |-> CompareText(cands[i].text)]
    IN {normalized[i] : i \in {j \in 1..Len(cands) : Len(normalized[j]) < SHORT_LINE_LIMIT}}

\* seen_on_page of every page
SeenByPage(blocks) == [p \in PageNumbers(blocks) |-> SeenOnPage(blocks, p)]

\* candidate_counter[line]: the pages that counted the line once
CandidateCount(seen, line) == Cardinality({p \in DOMAIN seen : line \in seen[p]})

\* HeaderFooterLines with count > threshold, as the docstring words it
HeaderFooterLines_Strict(blocks) ==
    LET total_pages == Cardinality(PageNumbers(blocks))
        seen == SeenByPage(blocks)
    IN {line \in UNION {seen[p] : p \in DOMAIN seen} :
          THRESHOLD_DEN * CandidateCount(seen, line) > THRESHOLD_NUM * total_pages}

\* count >= total_pages * 0.6
HeaderFooterLines(blocks) ==
    LET total_pages == Cardinality(PageNumbers(blocks))
        seen == SeenByPage(blocks)
    IN {line \in UNION {seen[p] : p \in DOMAIN seen} :
          THRESHOLD_DEN * CandidateCount(seen, line) >= THRESHOLD_NUM * total_pages}

_remove_headers_footers(blocks) ==
    IF blocks = <<>> THEN blocks
    ELSE IF Cardinality(PageNumbers(blocks)) < MIN_PAGES THEN blocks
    ELSE LET header_footer_lines == HeaderFooterLines(blocks)
         IN IF header_footer_lines = {} THEN blocks
            ELSE SelectSeq(blocks, LAMBDA b : CompareText(b.text) \notin header_footer_lines)

-----------------------------------------------------------------------------
(* Structure detection                                                     *)

\* the keywords of _HEADING_PATTERNS[0], transliterated letter for letter
KW_STATYA == <<"S","T","A","T","Q","Y">>

KW_GLAVA == <<"G","L","A","V","A">>

KW_RAZDEL == <<"R","A","Z","D","E","L">>

KW_BOBI == <<"B","O","B","I">>

KW_MODDAI == <<"M","O","D","D","A","I">>

ROMAN == {"I", "V", "X", "L", "C", "D", "M"}

BULLETS == {"-"}

\* the length of the longest prefix of t, from index i on, made of characters in S
RunLen(t, i, S) ==
    LET stops == {j \in i..Len(t) : t[j] \notin S}
    IN IF stops = {} THEN Len(t) - i + 1 ELSE SetMin(stops) - i

\* the length of the run of non-whitespace characters of t from index i on (\S*)
WordLen(t, i) ==
    LET stops == {j \in i..Len(t) : t[j] \in WS}
    IN IF stops = {} THEN Len(t) - i + 1 ELSE SetMin(stops) - i

\* ^KEYWORD\s+\d+ on a line, letter case ignored
KeywordNumber(line, kws) ==
    \E kw \in kws :
        /\ StartsWith(ToUpper(line), kw)
        /\ RunLen(line, Len(kw) + 1, WS) >= 1
        /\ LET d == Len(kw) + 1 + RunLen(line, Len(kw) + 1, WS)
           IN d <= Len(line) /\ line[d] \in Digits

\* the end of the longest prefix matching \d+(?:\.\d+)* , 0 if there is none
RECURSIVE DottedEnd(_, _)
DottedEnd(line, i) ==
    LET n == RunLen(line, i, Digits)
        e == i + n - 1
    IN IF n = 0 THEN 0
       ELSE IF e + 1 <= Len(line) /\ line[e + 1] = "." /\ DottedEnd(line, e + 2) > 0
            THEN DottedEnd(line, e + 2)
            ELSE e

DotCount(t) == Cardinality({i \in 1..Len(t) : t[i] = "."})

\* ^\d+(?:\.\d+)+\s+\S+
MatchesNumbering(line) ==
    LET e == DottedEnd(line, 1)
    IN /\ DotCount(SubSeq(line, 1, e)) >= 1
       /\ RunLen(line, e + 1, WS) >= 1
       /\ e + RunLen(line, e + 1, WS) < Len(line)

\* ^[IVXLCDM]+\.\s+\S+
MatchesRoman(line) ==
    LET n == RunLen(line, 1, ROMAN)
    IN /\ n >= 1
       /\ n + 1 <= Len(line) /\ line[n + 1] = "."
       /\ RunLen(line, n + 2, WS) >= 1
       /\ n + 1 + RunLen(line, n + 2, WS) < Len(line)

\* any of _HEADING_PATTERNS[:3] matches the line
MatchesStrongHeading(line) ==
    \/ KeywordNumber(line, {KW_STATYA, KW_GLAVA, KW_RAZDEL, KW_BOBI, KW_MODDAI})
    \/ MatchesNumbering(line)
    \/ MatchesRoman(line)

\* _HEADING_PATTERNS[3].match(line): 3 to 80 letters, digits, hyphens and
\* whitespace
MatchesWeakPattern(line) ==
    /\ Len(line) >= 3
    /\ Len(line) <= 80
    /\ \A i \in 1..Len(line) : line[i] \in Letters \cup Digits \cup WS \cup {"-"}

\* _LIST_PATTERN.match(line), letter case ignored
MatchesList(line) ==
    \/ Len(line) >= 2 /\ line[1] \in BULLETS /\ line[2] \in WS
    \/ LET n == RunLen(line, 1, Digits)
       IN n >= 1 /\ n + 2 <= Len(line) /\ line[n + 1] \in {".", ")"} /\ line[n + 2] \in WS
    \/ Len(line) >= 3 /\ line[1] \in Letters /\ line[2] \in {".", ")"} /\ line[3] \in WS

\* _TABLE_PATTERN.search(line): (?:\|.*){2,} or (?:\t\S+){2,}
MatchesTable(line) ==
    \/ Cardinality({i \in 1..Len(line) : line[i] = "|"}) >= 2
    \/ \E i \in 1..Len(line) :
        /\ line[i] = TAB
        /\ WordLen(line, i + 1) >= 1
        /\ LET j == i + 1 + WordLen(line, i + 1)
           IN j + 1 <= Len(line) /\ line[j] = TAB /\ line[j + 1] \notin WS

WEAK_MAX_LINES == 2

WEAK_MAX_LEN == 80

WEAK_MIN_LEN == 3

\* the weak heading test of _classify_kind
WeakHeading(lines, first_line) ==
    /\ Len(lines) <= WEAK_MAX_LINES
    /\ Len(first_line) <= WEAK_MAX_LEN
    /\ first_line = ToUpper(first_line)
    /\ ~EndsWith(first_line, <<".">>)
    /\ Len(first_line) > WEAK_MIN_LEN
    /\ \E i \in 1..Len(first_line) : first_line[i] \in Letters

\* _classify_kind with the heading tests made before the list test
_classify_kind_HeadingFirst(text) ==
    LET lines == SplitLines(Strip(text))
        first_line == Strip(lines[1])
    IN IF Len(lines) >= 2 /\ Cardinality({i \in 1..Len(lines) : MatchesTable(lines[i])}) >= 2
       THEN "table_like"
       ELSE IF MatchesStrongHeading(first_line) THEN "heading"
       ELSE IF WeakHeading(lines, first_line) THEN "heading"
       ELSE IF MatchesList(first_line) THEN "list_item"
       ELSE "paragraph"

_classify_kind(text) ==
    LET lines == SplitLines(Strip(text))
        first_line == Strip(lines[1])
    IN IF Len(lines) >= 2 /\ Cardinality({i \in 1..Len(lines) : MatchesTable(lines[i])}) >= 2
       THEN "table_like"
       ELSE IF MatchesList(first_line) THEN "list_item"
       ELSE IF MatchesStrongHeading(first_line) THEN "heading"
       ELSE IF WeakHeading(lines, first_line) THEN "heading"
       ELSE "paragraph"

\* _heading_level
_heading_level(heading_text) ==
    LET h == Strip(ToUpper(heading_text))
        e == DottedEnd(h, 1)
    IN IF KeywordNumber(h, {KW_GLAVA, KW_RAZDEL, KW_BOBI}) THEN 0
       ELSE IF KeywordNumber(h, {KW_STATYA, KW_MODDAI}) THEN 1
       ELSE IF e > 0 /\ RunLen(h, e + 1, WS) >= 1 THEN DotCount(SubSeq(h, 1, e))
       ELSE 2

\* re.split(r"\n\s*\n", text) with every part stripped and the empty parts
\* dropped: the text is cut at each whitespace run that holds two newlines
SplitParagraphs(t) ==
    LET ink == SelectSeq(Indices(Len(t)), LAMBDA i : t[i] \notin WS)
        \* a paragraph ends at the k-th inked character
        Ends(k) ==
            \/ k = Len(ink)
            \/ Cardinality({j \in (ink[k] + 1)..(ink[k + 1] - 1) : t[j] = NL}) >= 2
        ends == SelectSeq(Indices(Len(ink)), Ends)
    IN [m \in 1..Len(ends) |->
          SubSeq(t, ink[IF m = 1 THEN 1 ELSE ends[m - 1] + 1], ink[ends[m]])]

\* the first loop of _blocks_to_units: sub-blocks with a dense order;
\* order_counter is the number of sub-blocks made so far
RECURSIVE SubBlocks(_, _)
SubBlocks(sub_blocks, blocks) ==
    IF Evaluated(sub_blocks) /\ blocks # <<>>
    THEN LET b == Head(blocks)
             paragraphs == SplitParagraphs(b.text)
             order_counter == Len(sub_blocks)
         IN SubBlocks(sub_blocks \o [k \in 1..Len(paragraphs) |->
                                       [text |-> paragraphs[k], page |-> b.page,
                                        order |-> order_counter + k - 1]],
                      Tail(blocks))
    ELSE sub_blocks

\* sb.text.strip().split("\n")[0].strip()
HeadingText(text) == Strip(SplitLines(Strip(text))[1])

\* PushHeading without the truncation to the heading's level
PushHeading_NoTruncate(section_stack, heading_text) == Append(section_stack, heading_text)

\* section_stack = section_stack[:level]; section_stack.append(heading_text)
PushHeading(section_stack, heading_text) ==
    LET level == _heading_level(heading_text)
    IN SubSeq(section_stack, 1, IF level < Len(section_stack) THEN level ELSE Len(section_stack))
       \o <<heading_text>>

\* the second loop of _blocks_to_units
RECURSIVE UnitsFrom(_, _, _)
UnitsFrom(unit_list, section_stack, sub_blocks) ==
    IF Evaluated(unit_list) /\ sub_blocks # <<>>
    THEN LET sb == Head(sub_blocks)
             kind == _classify_kind(sb.text)
             stack == IF kind = "heading"
                      THEN PushHeading(section_stack, HeadingText(sb.text))
                      ELSE section_stack
         IN UnitsFrom(Append(unit_list,
                             [text |-> sb.text, kind |-> kind, page_start |-> sb.page,
                              page_end |-> sb.page, order |-> sb.order, section_path |-> stack]),
                      stack, Tail(sub_blocks))
    ELSE unit_list

_blocks_to_units(blocks) == UnitsFrom(<<>>, <<>>, SubBlocks(<<>>, blocks))

-----------------------------------------------------------------------------
(* Oversized units                                                         *)

\* the characters _SENTENCE_SPLIT looks behind for
SENTENCE_END == {".", "!", "?"}

\* _SENTENCE_SPLIT.split(text): cut at every whitespace run that follows a
\* sentence end; the runs themselves are dropped
SplitSentences(t) ==
    LET cuts == SelectSeq(Indices(Len(t)),
                          LAMBDA i : t[i] \in WS /\ i > 1 /\ t[i - 1] \in SENTENCE_END)
    IN [k \in 1..(Len(cuts) + 1) |->
          SubSeq(t, IF k = 1 THEN 1 ELSE WsRunEnd(t, cuts[k - 1]) + 1,
                    IF k = Len(cuts) + 1 THEN Len(t) ELSE cuts[k] - 1)]

\* HardSplit as it would be with range(0, len(text) - max_chars + 1, max_chars):
\* the last, shorter slice is lost
RECURSIVE HardSplit_DropTail(_, _)
HardSplit_DropTail(t, max_chars) ==
    IF Len(t) < max_chars THEN <<>>
    ELSE <<SubSeq(t, 1, max_chars)>> \o HardSplit_DropTail(DropTo(t, max_chars + 1), max_chars)

\* [text[i:i + max_chars] for i in range(0, len(text), max_chars)]
RECURSIVE HardSplit(_, _)
HardSplit(t, max_chars) ==
    IF t = <<>> THEN <<>>
    ELSE IF Len(t) <= max_chars THEN <<t>>
    ELSE <<SubSeq(t, 1, max_chars)>> \o HardSplit(DropTo(t, max_chars + 1), max_chars)

\* the sentence loop as it would be without the hard split of a sentence
\* that alone exceeds max_tokens: the sentence starts the next run whole
RECURSIVE PackSentences_KeepLong(_, _, _)
PackSentences_KeepLong(self, sentences, current) ==
    IF sentences = <<>> THEN (IF current # <<>> THEN <<current>> ELSE <<>>)
    ELSE LET sentence == Strip(Head(sentences))
             candidate == IF current # <<>> THEN Strip(current \o <<SP>> \o sentence) ELSE sentence
         IN IF sentence = <<>> THEN PackSentences_KeepLong(self, Tail(sentences), current)
            ELSE IF _estimate_tokens(candidate) > self.max_tokens
            THEN (IF current # <<>> THEN <<current>> ELSE <<>>)
                 \o PackSentences_KeepLong(self, Tail(sentences), sentence)
            ELSE PackSentences_KeepLong(self, Tail(sentences), candidate)

\* the sentence loop of _split_oversized; current is the sentence run being built
RECURSIVE PackSentences(_, _, _)
PackSentences(self, sentences, current) ==
    IF sentences = <<>> THEN (IF current # <<>> THEN <<current>> ELSE <<>>)
    ELSE LET sentence == Strip(Head(sentences))
             candidate == IF current # <<>> THEN Strip(current \o <<SP>> \o sentence) ELSE sentence
         IN IF sentence = <<>> THEN PackSentences(self, Tail(sentences), current)
            ELSE IF _estimate_tokens(candidate) > self.max_tokens
            THEN (IF current # <<>> THEN <<current>> ELSE <<>>)
                 \o (IF _estimate_tokens(sentence) > self.max_tokens
                     THEN HardSplit(sentence, TokensToChars(self.max_tokens))
                          \o PackSentences(self, Tail(sentences), <<>>)
                     ELSE PackSentences(self, Tail(sentences), sentence))
            ELSE PackSentences(self, Tail(sentences), candidate)

_split_oversized(self, text) ==
    LET sentences == SplitSentences(text)
    IN IF Len(sentences) <= 1 /\ _estimate_tokens(text) > self.max_tokens
       THEN HardSplit(text, TokensToChars(self.max_tokens))
       ELSE PackSentences(self, sentences, <<>>)

-----------------------------------------------------------------------------
(* Token-based packing                                                     *)

\* the locals of _pack_units before the loop
PackStart(unit_list) ==
    [chunks |-> <<>>, current_texts |-> <<>>, current_tokens |-> 0,
     current_page_start |-> unit_list[1].page_start,
     current_page_end |-> unit_list[1].page_end,
     current_section_path |-> unit_list[1].section_path]

\* _flush() as it would be without emptying the buffer
_flush_KeepBuffer(st) ==
    LET text == Strip(Join(st.current_texts, PARA_SEP))
    IN [st EXCEPT
          !.chunks = IF st.current_texts # <<>> /\ text # <<>>
                     THEN Append(@, [chunk_index |-> 0, text |-> text,
                                     page_start |-> st.current_page_start,
                                     page_end |-> st.current_page_end,
                                     section_path |-> st.current_section_path])
                     ELSE @]

\* _flush(): emit the buffer as a chunk if its joined text is not blank
_flush(st) ==
    LET text == Strip(Join(st.current_texts, PARA_SEP))
    IN [st EXCEPT
          !.chunks = IF st.current_texts # <<>> /\ text # <<>>
                     THEN Append(@, [chunk_index |-> 0, text |-> text,
                                     page_start |-> st.current_page_start,
                                     page_end |-> st.current_page_end,
                                     section_path |-> st.current_section_path])
                     ELSE @,
          !.current_texts = <<>>,
          !.current_tokens = 0]

\* _flush() followed by the three assignments that restart the buffer at unit
FlushAt(st, unit) ==
    [_flush(st) EXCEPT !.current_page_start = unit.page_start,
                       !.current_page_end = unit.page_end,
                       !.current_section_path = unit.section_path]

\* Rule 1 as it would be with _flush() alone: the page range and the section
\* path of the buffer stay those of the chunk before
HeadingFlush_KeepRange(st, unit) ==
    IF unit.kind = "heading" /\ st.current_texts # <<>> THEN _flush(st) ELSE st

\* Rule 1: a heading always starts a new chunk
HeadingFlush(st, unit) ==
    IF unit.kind = "heading" /\ st.current_texts # <<>> THEN FlushAt(st, unit) ELSE st

\* Rule 2 as it would be without the test of min_tokens
OverflowFlush_NoMin(self, st, unit) ==
    IF /\ st.current_tokens + _estimate_tokens(unit.text) > self.max_tokens
       /\ st.current_texts # <<>>
    THEN FlushAt(st, unit) ELSE st

\* Rule 2: the unit would exceed max_tokens and the buffer holds min_tokens
OverflowFlush(self, st, unit) ==
    IF /\ st.current_tokens + _estimate_tokens(unit.text) > self.max_tokens
       /\ st.current_texts # <<>>
       /\ st.current_tokens >= self.min_tokens
    THEN FlushAt(st, unit) ELSE st

\* the loop over the pieces of an oversized unit
RECURSIVE FeedPieces(_, _, _, _)
FeedPieces(self, st, unit, pieces) ==
    IF Evaluated(st) /\ pieces # <<>>
    THEN LET piece == Head(pieces)
             piece_tokens == _estimate_tokens(piece)
             s == IF st.current_tokens + piece_tokens > self.max_tokens /\ st.current_texts # <<>>
                  THEN FlushAt(st, unit) ELSE st
         IN FeedPieces(self,
                       [s EXCEPT !.current_texts = Append(@, piece),
                                 !.current_tokens = @ + piece_tokens,
                                 !.current_page_end = unit.page_end],
                       unit, Tail(pieces))
    ELSE st

\* the branch for a unit bigger than max_tokens on its own
PackOversized(self, st, unit) ==
    FeedPieces(self,
               IF st.current_texts # <<>> THEN FlushAt(st, unit) ELSE st,
               unit, _split_oversized(self, unit.text))

\* the proactive flush as it would be without the test of the unit's kind
TargetFlush_AnyKind(self, st, unit) ==
    IF /\ st.current_tokens >= self.target_tokens
       /\ st.current_texts # <<>>
    THEN FlushAt(st, unit) ELSE st

\* the proactive flush at target_tokens
TargetFlush(self, st, unit) ==
    IF /\ st.current_tokens >= self.target_tokens
       /\ st.current_texts # <<>>
       /\ unit.kind \in {"heading", "paragraph"}
    THEN FlushAt(st, unit) ELSE st

\* the addition as it would be without current_page_end = unit.page_end
AddUnit_KeepPageEnd(st, unit) ==
    [st EXCEPT !.current_texts = Append(@, unit.text),
               !.current_tokens = @ + _estimate_tokens(unit.text),
               !.current_section_path = IF @ = <<>> THEN unit.section_path ELSE @]

\* add the unit to the current chunk
AddUnit(st, unit) ==
    [st EXCEPT !.current_texts = Append(@, unit.text),
               !.current_tokens = @ + _estimate_tokens(unit.text),
               !.current_page_end = unit.page_end,
               !.current_section_path = IF @ = <<>> THEN unit.section_path ELSE @]

\* one iteration of the loop over the units
PackUnit(self, st, unit) ==
    LET s2 == OverflowFlush(self, HeadingFlush(st, unit), unit)
    IN IF _estimate_tokens(unit.text) > self.max_tokens
       THEN PackOversized(self, s2, unit)
       ELSE AddUnit(TargetFlush(self, s2, unit), unit)

RECURSIVE PackLoop(_, _, _)
PackLoop(self, st, unit_list) ==
    IF Evaluated(st) /\ unit_list # <<>>
    THEN PackLoop(self, PackUnit(self, st, Head(unit_list)), Tail(unit_list))
    ELSE st

\* _pack_units without its guard: units[0] of an empty list raises IndexError
_pack_units_Unguarded(self, unit_list) ==
    [raised |-> unit_list = <<>>,
     chunks |-> IF unit_list = <<>> THEN <<>>
                ELSE _flush(PackLoop(self, PackStart(unit_list), unit_list)).chunks]

\* _pack_units; raised is TRUE where the code would raise (units[0] of no units)
_pack_units(self, unit_list) ==
    IF unit_list = <<>> THEN [raised |-> FALSE, chunks |-> <<>>]
    ELSE [raised |-> FALSE,
          chunks |-> _flush(PackLoop(self, PackStart(unit_list), unit_list)).chunks]

-----------------------------------------------------------------------------
(* Postprocessing                                                          *)

\* MergeStep without the test of the chunk's first line against the strong
\* heading patterns
MergeStep_NoHeadingTest(self, merged_list, chunk) ==
    LET prev == merged_list[Len(merged_list)]
        curr_tokens == _estimate_tokens(chunk.text)
        combined == prev.text \o PARA_SEP \o chunk.text
    IN IF /\ curr_tokens < self.min_tokens
          /\ _estimate_tokens(combined) <= self.max_tokens
       THEN [merged_list EXCEPT ![Len(merged_list)] =
               [prev EXCEPT !.text = combined,
                            !.page_end = IF chunk.page_end > @ THEN chunk.page_end ELSE @,
                            !.section_path = IF Len(chunk.section_path) > Len(@)
                                             THEN chunk.section_path ELSE @]]
       ELSE Append(merged_list, chunk)

\* one iteration of the loop of _postprocess
MergeStep(self, merged_list, chunk) ==
    LET prev == merged_list[Len(merged_list)]
        curr_tokens == _estimate_tokens(chunk.text)
        combined == prev.text \o PARA_SEP \o chunk.text
        starts_with_heading == MatchesStrongHeading(HeadingText(chunk.text))
    IN IF /\ curr_tokens < self.min_tokens
          /\ _estimate_tokens(combined) <= self.max_tokens
          /\ ~starts_with_heading
       THEN [merged_list EXCEPT ![Len(merged_list)] =
               [prev EXCEPT !.text = combined,
                            !.page_end = IF chunk.page_end > @ THEN chunk.page_end ELSE @,
                            !.section_path = IF Len(chunk.section_path) > Len(@)
                                             THEN chunk.section_path ELSE @]]
       ELSE Append(merged_list, chunk)

RECURSIVE MergeLoop(_, _, _)
MergeLoop(self, merged_list, chunks) ==
    IF Evaluated(merged_list) /\ chunks # <<>>
    THEN MergeLoop(self, MergeStep(self, merged_list, Head(chunks)), Tail(chunks))
    ELSE merged_list

_postprocess(self, chunks) ==
    IF Len(chunks) <= 1 THEN chunks
    ELSE MergeLoop(self, <<chunks[1]>>, Tail(chunks))

-----------------------------------------------------------------------------
(* Overlap                                                                 *)

\* the truncation marker
MARKER == <<".", ".", ".">>

\* prev_text[-overlap_chars:], cut after its first space unless that space leads it
OverlapTail(prev_text, overlap_chars) ==
    LET tail == DropTo(prev_text, Len(prev_text) - overlap_chars + 1)
        spaces == {i \in 1..Len(tail) : tail[i] = SP}
    IN IF spaces # {} /\ SetMin(spaces) > 1 THEN DropTo(tail, SetMin(spaces) + 1) ELSE tail

\* OverlapLoop writing the overlap after the chunk's own text
RECURSIVE OverlapLoop_Suffix(_, _, _)
OverlapLoop_Suffix(result, chunks, overlap_chars) ==
    IF Evaluated(result) /\ chunks # <<>>
    THEN LET prev_text == result[Len(result)].text
             curr == Head(chunks)
         IN OverlapLoop_Suffix(
              Append(result,
                     IF Len(prev_text) > overlap_chars
                     THEN [curr EXCEPT !.text = @ \o PARA_SEP \o MARKER
                                                \o OverlapTail(prev_text, overlap_chars)]
                     ELSE curr),
              Tail(chunks), overlap_chars)
    ELSE result

\* the loop of _apply_overlap: chunks[i - 1] is read after its own text was rewritten
RECURSIVE OverlapLoop(_, _, _)
OverlapLoop(result, chunks, overlap_chars) ==
    IF Evaluated(result) /\ chunks # <<>>
    THEN LET prev_text == result[Len(result)].text
             curr == Head(chunks)
         IN OverlapLoop(
              Append(result,
                     IF Len(prev_text) > overlap_chars
                     THEN [curr EXCEPT !.text = MARKER \o OverlapTail(prev_text, overlap_chars)
                                                \o PARA_SEP \o @]
                     ELSE curr),
              Tail(chunks), overlap_chars)
    ELSE result

_apply_overlap(self, chunks) ==
    IF Len(chunks) <= 1 \/ self.overlap_tokens <= 0 THEN chunks
    ELSE OverlapLoop(<<chunks[1]>>, Tail(chunks), TokensToChars(self.overlap_tokens))

\* AssignIndices left out: every chunk keeps the index the packer gave it
AssignIndices_Skipped(chunks) == chunks

\* for i, c in enumerate(chunks): c.chunk_index = i
AssignIndices(chunks) == [i \in 1..Len(chunks) |-> [chunks[i] EXCEPT !.chunk_index = i - 1]]

-----------------------------------------------------------------------------
(* Inputs: configurations and documents                                    *)

\* the longest document of the general specification, in blocks
MaxBlocks == 3

\* HybridChunker(target_tokens, max_tokens, min_tokens, overlap_tokens)
HybridChunker(target, max, min, overlap) ==
    [target_tokens |-> target, max_tokens |-> max, min_tokens |-> min, overlap_tokens |-> overlap]

\* HybridChunker(): the defaults of __init__
DEFAULT_TARGET_TOKENS == 450

DEFAULT_MAX_TOKENS == 800

DEFAULT_MIN_TOKENS == 200

DEFAULT_OVERLAP_TOKENS == 0

DefaultChunker ==
    HybridChunker(DEFAULT_TARGET_TOKENS, DEFAULT_MAX_TOKENS, DEFAULT_MIN_TOKENS,
                  DEFAULT_OVERLAP_TOKENS)

\* small budgets, so that short texts reach every branch of the packer
Configs == {HybridChunker(2, 3, 2, 0)}

\* the same budgets without overlap and with an overlap of 3 and of 7 characters
ConfigsOverlap == {HybridChunker(2, 3, 2, 0), HybridChunker(2, 3, 2, 1), HybridChunker(2, 3, 2, 2)}

T_GLAVA == KW_GLAVA \o <<SP, "1">>

T_STATYA == KW_STATYA \o <<SP, "1">>

T_WEAK == <<"A", "B", "C", "D">>

T_NUMBERED == <<"1", ".", "1", SP, "b">>

T_PARA == <<"a", "b", SP, "c", "d", ".">>

T_PARA3 == <<"a", "b", SP, "c", "d", SP, "e", "f", SP, "g", "h", SP, "i", "j">>

T_SENTENCES == <<"A", "b", SP, "c", "d", ".", SP, "E", "f", SP, "g", "h", ".", SP, "I", "j", ".">>

T_UNBROKEN == <<"a", "b", "c", "d", "e", "f", "g", "h", "i", "j", "k", "l", "m", "n", "o", "p">>

T_BLANK == <<SP, NL>>

T_PAGENO == <<"1", "2">>

\* a hyphen break, a CRLF, three newlines, a tab: a paragraph xy and a list item - ab
T_TWO == <<"x", "-", CR, NL, "y", NL, NL, NL, "-", TAB, SP, "a", "b">>

Palette == {T_GLAVA, T_STATYA, T_WEAK, T_NUMBERED, T_PARA, T_PARA3,
            T_SENTENCES, T_UNBROKEN, T_BLANK, T_PAGENO, T_TWO}

PaletteOverlap == {T_GLAVA, T_STATYA, T_WEAK, T_PARA, T_PARA3, T_SENTENCES}

\* a heading of each strength, a short paragraph, an oversized one, a block
\* that normalization drops and a block of two paragraphs
PaletteWhole == {T_GLAVA, T_WEAK, T_PARA, T_SENTENCES, T_BLANK, T_TWO}

\* all blocks on one page, or each block on the next page
PageStrides == {0, 1}

\* a document: its texts in list order, with the pages and orders an extractor gives
Document(texts, stride) ==
    [i \in 1..Len(texts) |-> [text |-> texts[i], page |-> 1 + (i - 1) * stride, order |-> i - 1]]

DocumentsOver(palette) ==
    {Document(texts, stride) :
        texts \in UNION {[1..n -> palette] : n \in 0..MaxBlocks}, stride \in PageStrides}

\* the longest paged document, in pages
MaxPages == 5

H_HEADER == <<"H", "d">>

H_UPPER == <<"H", "D">>

H_FOOTER == <<"f", "t">>

H_X == <<"x">>

H_Y == <<"y">>

\* a line of exactly 100 characters and one of 99
H_LONG == [i \in 1..100 |-> "l"]

H_SHORT == [i \in 1..99 |-> "m"]

\* the body line only page p has
H_BODY(p) == <<"b", <<"0", "1", "2", "3", "4", "5", "6", "7", "8", "9">>[(p % 10) + 1]>>

\* what a page holds, in list order; ord is the block's order within the page
PAGE_PLAIN == <<[tag |-> "header", ord |-> 0], [tag |-> "body", ord |-> 1],
                [tag |-> "footer", ord |-> 2]>>

PAGE_INNER == <<[tag |-> "x", ord |-> 0], [tag |-> "y", ord |-> 1], [tag |-> "header", ord |-> 2],
                [tag |-> "y", ord |-> 3], [tag |-> "x", ord |-> 4]>>

PAGE_LONG == <<[tag |-> "long", ord |-> 0], [tag |-> "short", ord |-> 1],
               [tag |-> "body", ord |-> 2]>>

\* the header, in capitals, third in the list and first by order
PAGE_UNSORTED == <<[tag |-> "x", ord |-> 1], [tag |-> "y", ord |-> 2], [tag |-> "upper", ord |-> 0],
                   [tag |-> "y", ord |-> 3], [tag |-> "x", ord |-> 4]>>

PageLayouts == {PAGE_PLAIN, PAGE_INNER, PAGE_LONG, PAGE_UNSORTED}

TagText(tag, p) ==
    CASE tag = "header" -> H_HEADER
      [] tag = "upper" -> H_UPPER
      [] tag = "footer" -> H_FOOTER
      [] tag = "x" -> H_X
      [] tag = "y" -> H_Y
      [] tag = "long" -> H_LONG
      [] tag = "short" -> H_SHORT
      [] tag = "body" -> H_BODY(p)

\* the blocks of page p laid out as layout
PageOf(layout, p) ==
    [k \in 1..Len(layout) |->
        [text |-> TagText(layout[k].tag, p), page |-> p, order |-> 10 * p + layout[k].ord]]

\* the pages one after the other
RECURSIVE PagedDocument(_, _)
PagedDocument(layouts, p) ==
    IF p > Len(layouts) THEN <<>>
    ELSE PageOf(layouts[p], p) \o PagedDocument(layouts, p + 1)

PagedDocuments ==
    {PagedDocument(layouts, 1) : layouts \in UNION {[1..n -> PageLayouts] : n \in 0..MaxPages}}

\* the longest text of the documents of one raw block, in characters
MaxText == 5

\* the characters the substitutions of _normalize_blocks tell apart
RawChars == {"a", "1", "-", SP, TAB, NL, CR}

\* one block of any text over RawChars
RawDocuments ==
    {Document(<<text>>, 0) : text \in UNION {[1..n -> RawChars] : n \in 0..MaxText}}

\* budgets that leave room between min_tokens, target_tokens and max_tokens
ConfigsPacking == {HybridChunker(4, 5, 2, 0)}

\* list items of 1 and 2 tokens, a table of 2, paragraphs of 2 and 5
L_BULLET == <<"-", SP, "a", "b">>

L_NUMBERED == <<"1", ".", SP, "c", "d", "e", "f", "g", "h">>

L_TABLE == <<"|", "a", "|", "b", NL, "|", "c", "|", "d">>

P_TWO == <<"a", "b", SP, "c", "d", SP, "e", "f">>

P_FIVE == <<"a", "b", SP, "c", "d", SP, "e", "f", SP, "g", "h", SP, "i", "j", SP, "k", "l", ".">>

PalettePacking == {L_BULLET, L_NUMBERED, L_TABLE, T_PARA, P_TWO, P_FIVE, T_GLAVA}

\* the longest block of the structure documents, in lines
MaxLines == 3

\* first lines and table lines: list markers, headings of each pattern, a
\* list marker that is a Roman heading too, lines with two pipes, upper-case
\* lines around the limits of the weak rule
LN_BULLET == <<"-", SP, "a">>

LN_ROMAN_LIST == <<"I", ".", SP, "a">>

LN_NUMBERED == <<"1", ".", "1", SP, "a">>

LN_KEYWORD == KW_GLAVA \o <<SP, "1">>

LN_UPPER == <<"A", "B", "C", "D">>

LN_PLAIN == <<"a", "b">>

LN_TABLE == <<"|", "a", "|", "b">>

LN_LIST_TABLE == <<"-", SP, "|", "a", "|">>

LN_KEYWORD_TABLE == KW_GLAVA \o <<SP, "1", "|", "a", "|">>

LN_DIGITS_UPPER == <<"1", "2", SP, "A", "B">>

LN_UPPER3 == <<"A", "B", "C">>

LN_UPPER_DOT == <<"A", "B", "C", "D", ".">>

LN_UPPER80 == [i \in 1..WEAK_MAX_LEN |-> "A"]

LN_UPPER81 == [i \in 1..(WEAK_MAX_LEN + 1) |-> "A"]

LN_MIXED == <<"A", "B", "c", "D">>

LinePalette ==
    {LN_BULLET, LN_ROMAN_LIST, LN_NUMBERED, LN_KEYWORD, LN_UPPER, LN_PLAIN, LN_TABLE,
     LN_LIST_TABLE, LN_KEYWORD_TABLE, LN_DIGITS_UPPER}

WeakLinePalette ==
    {LN_UPPER, LN_UPPER3, LN_UPPER_DOT, LN_UPPER80, LN_UPPER81, LN_MIXED, LN_DIGITS_UPPER}

\* one block of 1 to MaxLines lines
DocumentsOfLines(palette) ==
    {Document(<<Join(lines, <<NL>>)>>, 0) :
        lines \in UNION {[1..n -> palette] : n \in 1..MaxLines}}

\* the longest paragraph of the sentence documents, in sentences
MaxSentences == 3

\* sentences of 1, 1 and 3 tokens, one of 4 tokens without a space, and a
\* fragment without a sentence end
S_SHORT == <<"A", "b", ".">>

S_MID == <<"C", "d", SP, "e", "f", ".">>

S_FULL == <<"C", "d", SP, "e", "f", SP, "g", "h", SP, "i", "j", SP, "k", ".">>

S_LONG == <<"G", "h", "i", "j", "k", "l", "m", "n", "o", "p", "q", "r", "s", "t", "u", "!">>

S_FRAGMENT == <<"v", "w">>

SentencePalette == {S_SHORT, S_MID, S_FULL, S_LONG, S_FRAGMENT}

\* what stands between two sentences of a paragraph
SentenceSeparators == {SP, NL}

\* the paragraphs of n sentences
RECURSIVE ParagraphsOf(_)
ParagraphsOf(n) ==
    IF n = 0 THEN {<<>>}
    ELSE IF n = 1 THEN SentencePalette
    ELSE {t \o <<sep>> \o sentence :
            t \in ParagraphsOf(n - 1), sep \in SentenceSeparators, sentence \in SentencePalette}

\* one block holding one paragraph
SentenceDocuments ==
    {Document(<<text>>, 0) : text \in UNION {ParagraphsOf(n) : n \in 0..MaxSentences}}

-----------------------------------------------------------------------------
(* RateLimiter: the sliding window of core/rate_limit.py                   *)

MaxTime == 4

Clients == {"c1", "c2"}

Times == 0..MaxTime

\* RateLimiter.__init__: self.clients is a defaultdict(list)
RateLimiter(requests, window) ==
    [requests |-> requests, window |-> window, clients |-> [c \in Clients |-> <<>>]]

\* chat_limiter = RateLimiter(30, 60), on a scale of 2 requests in 2 ticks
ChatLimiter == RateLimiter(2, 2)

\* client_requests[:] = [t for t in client_requests if t > window_start]
Prune(self, client_id, now) ==
    [self EXCEPT !.clients[client_id] =
        SelectSeq(self.clients[client_id], LAMBDA t : t > now - self.window)]

is_allowed_OffByOne(self, client_id, now) ==
    LET pruned == Prune(self, client_id, now)
    IN  IF Len(pruned.clients[client_id]) <= self.requests
        THEN [self |-> [pruned EXCEPT !.clients[client_id] = Append(@, now)],
              result |-> TRUE]
        ELSE [self |-> pruned, result |-> FALSE]

is_allowed(self, client_id, now) ==
    LET pruned == Prune(self, client_id, now)
    IN  IF Len(pruned.clients[client_id]) < self.requests
        THEN [self |-> [pruned EXCEPT !.clients[client_id] = Append(@, now)],
              result |-> TRUE]
        ELSE [self |-> pruned, result |-> FALSE]

\* get_remaining prunes the client's list again and reports what is left
get_remaining(self, client_id, now) ==
    LET pruned == Prune(self, client_id, now)
    IN  [self |-> pruned,
         result |-> IF self.requests - Len(pruned.clients[client_id]) > 0
                    THEN self.requests - Len(pruned.clients[client_id]) ELSE 0]

NoLimiter == [self |-> RateLimiter(0, 0), now |-> 0, allowed |-> [c \in Clients |-> <<>>],
              client |-> "", status |-> 0]

\* the limiter at start-up: no request seen; `allowed' is the history of the
\* timestamps for which is_allowed returned True, per client
InitLimiter ==
    /\ cfg = DefaultChunker
    /\ input = <<>>
    /\ pc = "done"
    /\ nblocks = <<>>
    /\ fblocks = <<>>
    /\ units = <<>>
    /\ packed = <<>>
    /\ merged = <<>>
    /\ overlapped = <<>>
    /\ out = <<>>
    /\ raised = FALSE
    /\ limiter = [NoLimiter EXCEPT !.self = ChatLimiter]

\* now = time.time(): the clock is read as an instant of one timeline, so it
\* never decreases; several requests may read the same value
Tick ==
    /\ limiter.now < MaxTime
    /\ limiter' = [limiter EXCEPT !.now = @ + 1]
    /\ UNCHANGED <<cfg, input, pc, nblocks, fblocks, units, packed, merged, overlapped, out, raised>>

\* check_rate_limit(request, limiter) for a request of client_id: 429 with
\* the Retry-After and X-RateLimit headers when is_allowed returns False
CheckRateLimit(client_id) ==
    LET r == is_allowed(limiter.self, client_id, limiter.now)
    IN  /\ limiter' =
              IF r.result
              THEN [limiter EXCEPT !.self = r.self,
                                   !.allowed[client_id] = Append(@, limiter.now),
                                   !.client = client_id,
                                   !.status = 200]
              ELSE [limiter EXCEPT !.self = get_remaining(r.self, client_id, limiter.now).self,
                                   !.client = client_id,
                                   !.status = 429]
        /\ UNCHANGED <<cfg, input, pc, nblocks, fblocks, units, packed, merged, overlapped, out, raised>>

NextLimiter ==
    \/ Tick
    \/ \E client_id \in Clients : CheckRateLimit(client_id)

SpecLimiter == InitLimiter /\ [][NextLimiter]_vars

-----------------------------------------------------------------------------
(* chunk(): one action per stage of the pipeline                           *)

Fresh ==
    /\ pc = "chunk"
    /\ nblocks = <<>>
    /\ fblocks = <<>>
    /\ units = <<>>
    /\ packed = <<>>
    /\ merged = <<>>
    /\ overlapped = <<>>
    /\ out = <<>>
    /\ raised = FALSE
    /\ limiter = NoLimiter

Init ==
    /\ cfg \in Configs
    /\ input \in DocumentsOver(Palette)
    /\ Fresh

InitPaged ==
    /\ cfg = DefaultChunker
    /\ input \in PagedDocuments
    /\ Fresh

InitRaw ==
    /\ cfg = DefaultChunker
    /\ input \in RawDocuments
    /\ Fresh

InitSentences ==
    /\ cfg \in Configs
    /\ input \in SentenceDocuments
    /\ Fresh

InitPacking ==
    /\ cfg \in ConfigsPacking
    /\ input \in DocumentsOver(PalettePacking)
    /\ Fresh

InitStructure ==
    /\ cfg = DefaultChunker
    /\ input \in DocumentsOfLines(LinePalette)
    /\ Fresh

InitWeak ==
    /\ cfg = DefaultChunker
    /\ input \in DocumentsOfLines(WeakLinePalette)
    /\ Fresh

InitWhole ==
    /\ cfg \in Configs
    /\ input \in DocumentsOver(PaletteWhole)
    /\ Fresh

InitOverlap ==
    /\ cfg \in ConfigsOverlap
    /\ input \in DocumentsOver(PaletteOverlap)
    /\ Fresh

\* normalization as it would be if it rewrote the caller's list in place
Normalize_InPlace ==
    /\ pc = "chunk"
    /\ IF input = <<>>
       THEN /\ pc' = "done"
            /\ UNCHANGED <<input, nblocks>>
       ELSE /\ pc' = "remove_headers_footers"
            /\ input' = _normalize_blocks(input)
            /\ nblocks' = input'
    /\ UNCHANGED <<limiter, cfg, fblocks, units, packed, merged, overlapped, out, raised>>

\* if not blocks: return []; blocks = self._normalize_blocks(blocks)
Normalize ==
    /\ pc = "chunk"
    /\ IF input = <<>>
       THEN /\ pc' = "done"
            /\ UNCHANGED nblocks
       ELSE /\ pc' = "remove_headers_footers"
            /\ nblocks' = _normalize_blocks(input)
    /\ UNCHANGED <<limiter, cfg, input, fblocks, units, packed, merged, overlapped, out, raised>>

\* blocks = self._remove_headers_footers(blocks)
RemoveHeadersFooters ==
    /\ pc = "remove_headers_footers"
    /\ fblocks' = _remove_headers_footers(nblocks)
    /\ pc' = "blocks_to_units"
    /\ UNCHANGED <<limiter, cfg, input, nblocks, units, packed, merged, overlapped, out, raised>>

\* units = self._blocks_to_units(blocks)
BlocksToUnits ==
    /\ pc = "blocks_to_units"
    /\ units' = _blocks_to_units(fblocks)
    /\ pc' = "pack_units"
    /\ UNCHANGED <<limiter, cfg, input, nblocks, fblocks, packed, merged, overlapped, out, raised>>

\* chunks = self._pack_units(units)
PackUnits ==
    /\ pc = "pack_units"
    /\ LET r == _pack_units(cfg, units)
       IN /\ raised' = r.raised
          /\ packed' = r.chunks
          /\ pc' = IF r.raised THEN "raised" ELSE "postprocess"
    /\ UNCHANGED <<limiter, cfg, input, nblocks, fblocks, units, merged, overlapped, out>>

\* chunks = self._postprocess(chunks)
Postprocess ==
    /\ pc = "postprocess"
    /\ merged' = _postprocess(cfg, packed)
    /\ pc' = "apply_overlap"
    /\ UNCHANGED <<limiter, cfg, input, nblocks, fblocks, units, packed, overlapped, out, raised>>

\* if self.overlap_tokens > 0: chunks = self._apply_overlap(chunks)
ApplyOverlap ==
    /\ pc = "apply_overlap"
    /\ overlapped' = IF cfg.overlap_tokens > 0 THEN _apply_overlap(cfg, merged) ELSE merged
    /\ pc' = "assign_indices"
    /\ UNCHANGED <<limiter, cfg, input, nblocks, fblocks, units, packed, merged, out, raised>>

\* the index loop and return chunks
Return ==
    /\ pc = "assign_indices"
    /\ out' = AssignIndices(overlapped)
    /\ pc' = "done"
    /\ UNCHANGED <<limiter, cfg, input, nblocks, fblocks, units, packed, merged, overlapped, raised>>

Next ==
    \/ Normalize
    \/ RemoveHeadersFooters
    \/ BlocksToUnits
    \/ PackUnits
    \/ Postprocess
    \/ ApplyOverlap
    \/ Return

\* chunk() run alone, from its argument to its return value
chunk(self, blocks) ==
    IF blocks = <<>> THEN <<>>
    ELSE LET chunks == _postprocess(self,
                           _pack_units(self,
                               _blocks_to_units(
                                   _remove_headers_footers(_normalize_blocks(blocks)))).chunks)
         IN AssignIndices(IF self.overlap_tokens > 0 THEN _apply_overlap(self, chunks)
                          ELSE chunks)

Spec == Init /\ [][Next]_vars

SpecOverlap == InitOverlap /\ [][Next]_vars

SpecWhole == InitWhole /\ [][Next]_vars

SpecPaged == InitPaged /\ [][Next]_vars

SpecSentences == InitSentences /\ [][Next]_vars

SpecPacking == InitPacking /\ [][Next]_vars

SpecStructure == InitStructure /\ [][Next]_vars

SpecWeak == InitWeak /\ [][Next]_vars

\* the normalization stage alone, on every short raw text
SpecNormalize == InitRaw /\ [][Normalize]_vars

-----------------------------------------------------------------------------
(* Invocations of chunk() on one instance, interleaved                     *)

\* In this specification every variable but cfg is indexed by the invocation:
\* input[i] is the argument of invocation i, pc[i] its position, nblocks[i],
\* fblocks[i], units[i], merged[i], overlapped[i] its locals in chunk() and
\* out[i] its return value. packed.frames[f] holds the locals of one call of
\* _pack_units (st, and k, the position of its loop) and packed.chunks[i] the
\* list that call returned to invocation i. cfg is the instance, shared.

Invocations == {1, 2, 3}

\* the locals of _pack_units as they would be if they were attributes of the
\* instance: one frame for all invocations
Frame_Shared(i) == 1

\* the frame that holds the locals of invocation i's call of _pack_units:
\* chunks, current_texts, current_tokens, current_page_start, current_page_end
\* and current_section_path are created by each call
Frame(i) == i

ConfigConcurrent == HybridChunker(2, 3, 2, 1)

ConcurrentDocuments ==
    {Document(texts, 1) :
        texts \in {<<>>, <<T_PARA>>, <<T_GLAVA, T_PARA>>, <<T_PARA, T_PARA3>>, <<T_SENTENCES>>}}

IdleFrame == [st |-> <<>>, k |-> 0]

InitConcurrent ==
    /\ cfg = ConfigConcurrent
    /\ input \in [Invocations -> ConcurrentDocuments]
    /\ pc = [i \in Invocations |-> "chunk"]
    /\ nblocks = [i \in Invocations |-> <<>>]
    /\ fblocks = [i \in Invocations |-> <<>>]
    /\ units = [i \in Invocations |-> <<>>]
    /\ packed = [frames |-> [f \in Invocations |-> IdleFrame],
                 chunks |-> [i \in Invocations |-> <<>>]]
    /\ merged = [i \in Invocations |-> <<>>]
    /\ overlapped = [i \in Invocations |-> <<>>]
    /\ out = [i \in Invocations |-> <<>>]
    /\ raised = FALSE
    /\ limiter = NoLimiter

NormalizeIn(i) ==
    /\ pc[i] = "chunk"
    /\ IF input[i] = <<>>
       THEN /\ pc' = [pc EXCEPT ![i] = "done"]
            /\ UNCHANGED nblocks
       ELSE /\ pc' = [pc EXCEPT ![i] = "remove_headers_footers"]
            /\ nblocks' = [nblocks EXCEPT ![i] = _normalize_blocks(input[i])]
    /\ UNCHANGED <<limiter, cfg, input, fblocks, units, packed, merged, overlapped, out, raised>>

RemoveHeadersFootersIn(i) ==
    /\ pc[i] = "remove_headers_footers"
    /\ fblocks' = [fblocks EXCEPT ![i] = _remove_headers_footers(nblocks[i])]
    /\ pc' = [pc EXCEPT ![i] = "blocks_to_units"]
    /\ UNCHANGED <<limiter, cfg, input, nblocks, units, packed, merged, overlapped, out, raised>>

BlocksToUnitsIn(i) ==
    /\ pc[i] = "blocks_to_units"
    /\ units' = [units EXCEPT ![i] = _blocks_to_units(fblocks[i])]
    /\ pc' = [pc EXCEPT ![i] = "pack_units"]
    /\ UNCHANGED <<limiter, cfg, input, nblocks, fblocks, packed, merged, overlapped, out, raised>>

\* the guard of _pack_units and the creation of its locals
EnterPackUnits(i) ==
    /\ pc[i] = "pack_units"
    /\ IF units[i] = <<>>
       THEN /\ packed' = [packed EXCEPT !.chunks[i] = <<>>]
            /\ pc' = [pc EXCEPT ![i] = "postprocess"]
       ELSE /\ packed' = [packed EXCEPT !.frames[Frame(i)] =
                                            [st |-> PackStart(units[i]), k |-> 1]]
            /\ pc' = [pc EXCEPT ![i] = "pack_loop"]
    /\ UNCHANGED <<limiter, cfg, input, nblocks, fblocks, units, merged, overlapped, out, raised>>

\* one iteration of for unit in units
PackUnitIn(i) ==
    /\ pc[i] = "pack_loop"
    /\ LET frame == packed.frames[Frame(i)]
       IN /\ frame.k <= Len(units[i])
          /\ packed' = [packed EXCEPT !.frames[Frame(i)] =
                                          [st |-> PackUnit(cfg, frame.st, units[i][frame.k]),
                                           k |-> frame.k + 1]]
    /\ UNCHANGED <<limiter, cfg, input, pc, nblocks, fblocks, units, merged, overlapped, out, raised>>

\* the last _flush() and return chunks
LeavePackUnits(i) ==
    /\ pc[i] = "pack_loop"
    /\ LET frame == packed.frames[Frame(i)]
       IN /\ frame.k > Len(units[i])
          /\ packed' = [packed EXCEPT !.chunks[i] = _flush(frame.st).chunks]
    /\ pc' = [pc EXCEPT ![i] = "postprocess"]
    /\ UNCHANGED <<limiter, cfg, input, nblocks, fblocks, units, merged, overlapped, out, raised>>

PostprocessIn(i) ==
    /\ pc[i] = "postprocess"
    /\ merged' = [merged EXCEPT ![i] = _postprocess(cfg, packed.chunks[i])]
    /\ pc' = [pc EXCEPT ![i] = "apply_overlap"]
    /\ UNCHANGED <<limiter, cfg, input, nblocks, fblocks, units, packed, overlapped, out, raised>>

ApplyOverlapIn(i) ==
    /\ pc[i] = "apply_overlap"
    /\ overlapped' = [overlapped EXCEPT ![i] = IF cfg.overlap_tokens > 0
                                               THEN _apply_overlap(cfg, merged[i])
                                               ELSE merged[i]]
    /\ pc' = [pc EXCEPT ![i] = "assign_indices"]
    /\ UNCHANGED <<limiter, cfg, input, nblocks, fblocks, units, packed, merged, out, raised>>

ReturnIn(i) ==
    /\ pc[i] = "assign_indices"
    /\ out' = [out EXCEPT ![i] = AssignIndices(overlapped[i])]
    /\ pc' = [pc EXCEPT ![i] = "done"]
    /\ UNCHANGED <<limiter, cfg, input, nblocks, fblocks, units, packed, merged, overlapped, raised>>

NextConcurrent ==
    \E i \in Invocations :
        \/ NormalizeIn(i)
        \/ RemoveHeadersFootersIn(i)
        \/ BlocksToUnitsIn(i)
        \/ EnterPackUnits(i)
        \/ PackUnitIn(i)
        \/ LeavePackUnits(i)
        \/ PostprocessIn(i)
        \/ ApplyOverlapIn(i)
        \/ ReturnIn(i)

SpecConcurrent == InitConcurrent /\ [][NextConcurrent]_vars

-----------------------------------------------------------------------------
(* Vocabulary of the properties                                            *)

\* the characters of a text that are not whitespace
NonWs(t) == SelectSeq(t, LAMBDA c : c \notin WS)

\* the non-whitespace characters of the texts of a list of units or chunks, in order
Content(items) == NonWs(Join([i \in 1..Len(items) |-> items[i].text], <<>>))

\* how many non-whitespace characters precede item k of a list
StartOffset(items, k) == Len(Content(SubSeq(items, 1, k - 1)))

EndOffset(items, k) == Len(Content(SubSeq(items, 1, k)))

Oversized(unit) == _estimate_tokens(unit.text) > cfg.max_tokens

Finished == pc = "done" /\ input # <<>>

-----------------------------------------------------------------------------
(* C1 *)

\* C1: the list chunk() returns carries chunk_index 0, 1, ..., N-1 in list
\* order, also when the postprocessor merged chunks.
C1_IndicesSequential ==
    pc = "done" => \A i \in 1..Len(out) : out[i].chunk_index = i - 1

\* a run in which the postprocessor merged a chunk and several chunks come out
C1_Witness ==
    /\ Finished
    /\ Len(merged) < Len(packed)
    /\ Len(out) >= 2

-----------------------------------------------------------------------------
(* C2 *)

\* chunk k is made of pieces of one oversized unit only
FromOneOversizedUnit(k) ==
    \E j \in 1..Len(units) :
        /\ Oversized(units[j])
        /\ StartOffset(units, j) <= StartOffset(out, k)
        /\ EndOffset(out, k) <= EndOffset(units, j)

\* C2: without overlap, every returned chunk that is not built from a single
\* oversized unit has a token estimate of at most max_tokens + min_tokens,
\* the documented tolerance of one pass-through.
C2_TokenBound ==
    (pc = "done" /\ cfg.overlap_tokens = 0) =>
        \A k \in 1..Len(out) :
            FromOneOversizedUnit(k)
            \/ _estimate_tokens(out[k].text) <= cfg.max_tokens + cfg.min_tokens

-----------------------------------------------------------------------------
(* C3 *)

\* C3: without overlap, every heading unit but the first unit of the document
\* begins a chunk of the final output: no text of an earlier unit precedes it
\* in its chunk.
C3_HeadingBeginsChunk ==
    (pc = "done" /\ cfg.overlap_tokens = 0) =>
        \A j \in 2..Len(units) :
            units[j].kind = "heading" =>
                \E k \in 1..Len(out) :
                    /\ StartOffset(out, k) = StartOffset(units, j)
                    /\ StartsWith(NonWs(out[k].text), NonWs(HeadingText(units[j].text)))

-----------------------------------------------------------------------------
(* C4 *)

\* C4: without overlap, the chunk texts in output order hold the text of every
\* unit, in unit order and once each, up to whitespace.
C4_ContentPreserved ==
    (pc = "done" /\ cfg.overlap_tokens = 0 /\ input # <<>>) => Content(out) = Content(units)

\* a run that split an oversized unit, merged a chunk and returned several chunks
C4_Witness ==
    /\ Finished
    /\ cfg.overlap_tokens = 0
    /\ \E j \in 1..Len(units) : Oversized(units[j])
    /\ Len(merged) < Len(packed)
    /\ Len(out) >= 2

-----------------------------------------------------------------------------
(* C5 *)

\* the blocks of the page of nblocks[i] that sorting by order puts before it
Before(i) ==
    Cardinality({j \in 1..Len(nblocks) :
                   /\ nblocks[j].page = nblocks[i].page
                   /\ \/ nblocks[j].order < nblocks[i].order
                      \/ nblocks[j].order = nblocks[i].order /\ j < i})

\* and those it puts after it
After(i) ==
    Cardinality({j \in 1..Len(nblocks) :
                   /\ nblocks[j].page = nblocks[i].page
                   /\ \/ nblocks[j].order > nblocks[i].order
                      \/ nblocks[j].order = nblocks[i].order /\ j > i})

\* nblocks[i] is one of the first two or last two blocks of its page
AtBoundary(i) == Before(i) < 2 \/ After(i) < 2

\* the pairs of a page and the comparison text of a block at its boundary
BoundaryLines ==
    {<<nblocks[i].page, CompareText(nblocks[i].text)>> :
        i \in {j \in 1..Len(nblocks) : AtBoundary(j)}}

\* the pages on which line is a boundary line
PagesCounting(counted, line) == {c[1] : c \in {d \in counted : d[2] = line}}

\* the short lines that are boundary lines on 60% of at least three pages
RepeatedLines ==
    LET counted == BoundaryLines
        total_pages == Cardinality(PageNumbers(nblocks))
    IN {line \in {c[2] : c \in counted} :
          /\ total_pages >= 3
          /\ Len(line) < 100
          /\ 10 * Cardinality(PagesCounting(counted, line)) >= 6 * total_pages}

\* the comparison texts of the lines of the returned chunks
OutputLines ==
    UNION {{CompareText(SplitLines(out[k].text)[l]) : l \in 1..Len(SplitLines(out[k].text))} :
             k \in 1..Len(out)}

-----------------------------------------------------------------------------
(* C6 *)

\* the document of n pages that each hold the header, a body line of their
\* own and the footer
HeaderBodyFooter(n) == PagedDocument([p \in 1..n |-> PAGE_PLAIN], 1)

\* how often line is a line of a returned chunk
Occurrences(line) ==
    Cardinality({kl \in UNION {{<<k, l>> : l \in 1..Len(SplitLines(out[k].text))} :
                                 k \in 1..Len(out)} :
                   SplitLines(out[kl[1]].text)[kl[2]] = line})

\* C6: header/footer removal removes a block only if its comparison text is
\* short and was a boundary candidate on at least 60% of the pages, a page
\* counting once: the other blocks are kept unchanged and in their order,
\* nothing new appears, and with fewer than 3 pages nothing is removed. In
\* the document of identical headers and footers around unique body lines
\* every body line is in the output exactly once.
C6_OnlyRepeatedLinesRemoved ==
    pc = "done" =>
        LET repeated == RepeatedLines
            Kept(b) == CompareText(b.text) \notin repeated
        IN /\ SelectSeq(fblocks, Kept) = SelectSeq(nblocks, Kept)
           /\ \A k \in 1..Len(fblocks) : \E i \in 1..Len(nblocks) : fblocks[k] = nblocks[i]
           /\ Len(fblocks) <= Len(nblocks)
           /\ Cardinality(PageNumbers(nblocks)) < 3 => fblocks = nblocks
           /\ \A n \in 3..MaxPages :
                 input = HeaderBodyFooter(n) => \A p \in 1..n : Occurrences(H_BODY(p)) = 1

\* the document of headers, bodies and footers on three pages or more, its
\* headers and footers removed and its body lines kept
C6_Witness ==
    /\ pc = "done"
    /\ \E n \in 3..MaxPages : input = HeaderBodyFooter(n)
    /\ Len(fblocks) * 3 = Len(nblocks)
    /\ \A k \in 1..Len(fblocks) : fblocks[k].text = H_BODY(fblocks[k].page)

-----------------------------------------------------------------------------
(* C7 *)

UnitsBuilt == pc \in {"pack_units", "postprocess", "apply_overlap", "assign_indices", "done"}

\* the heading stack before unit j
PathBefore(j) == IF j = 1 THEN <<>> ELSE units[j - 1].section_path

\* the first min(n, Len(s)) entries of s
Prefix(s, n) == SubSeq(s, 1, IF n < Len(s) THEN n ELSE Len(s))

\* C7: a unit that is no heading has the section_path of the unit before it
\* (the empty path at the start); a heading of level L has that path cut to
\* length L plus its own first line, so at most L + 1 entries; and after
\* GLAVA 1, STATQY 1 a plain text has the path of these two lines.
C7_SectionPathIsStack ==
    UnitsBuilt =>
        /\ \A j \in 1..Len(units) :
            IF units[j].kind = "heading"
            THEN LET L == _heading_level(HeadingText(units[j].text))
                 IN /\ units[j].section_path
                          = Prefix(PathBefore(j), L) \o <<HeadingText(units[j].text)>>
                    /\ Len(units[j].section_path) <= L + 1
            ELSE units[j].section_path = PathBefore(j)
        /\ (/\ Len(units) = 3
            /\ units[1].text = T_GLAVA
            /\ units[2].text = T_STATYA
            /\ units[3].text = T_PARA)
           => units[3].section_path = <<T_GLAVA, T_STATYA>>

\* the documented example, followed to the end of the run
C7_Witness ==
    /\ pc = "done"
    /\ Len(units) = 3
    /\ units[1].text = T_GLAVA
    /\ units[2].text = T_STATYA
    /\ units[3].text = T_PARA
    /\ units[3].section_path = <<T_GLAVA, T_STATYA>>

-----------------------------------------------------------------------------
(* C10 *)

\* C10: no stage raises, on an empty intermediate list or otherwise: chunk()
\* is at one of its stages or has returned; chunk([]) and a document whose
\* blocks are all discarded by normalization or header/footer removal return
\* the empty list.
C10_EmptyIsNoError ==
    /\ raised = FALSE
    /\ pc \in {"chunk", "remove_headers_footers", "blocks_to_units", "pack_units",
               "postprocess", "apply_overlap", "assign_indices", "done"}
    /\ (pc = "done" /\ (input = <<>> \/ nblocks = <<>> \/ fblocks = <<>>)) => out = <<>>

\* a document whose blocks survive normalization and are all removed as
\* headers or footers
C10_Witness ==
    /\ pc = "done"
    /\ nblocks # <<>>
    /\ fblocks = <<>>
    /\ out = <<>>

-----------------------------------------------------------------------------
(* C8 *)

OverlapDone == pc \in {"assign_indices", "done"}

\* C8: with overlap_tokens > 0 every chunk after the first begins with the
\* marker, then a trailing slice of the previous chunk's text of at most
\* int(overlap_tokens * 3.6) characters, then a blank line, then its own
\* text, however short the previous chunk is.
C8_EveryLaterChunkHasOverlap ==
    (OverlapDone /\ cfg.overlap_tokens > 0) =>
        \A i \in 2..Len(overlapped) :
            LET own == merged[i].text
                text == overlapped[i].text
                tail == SubSeq(text, Len(MARKER) + 1, Len(text) - Len(own) - Len(PARA_SEP))
            IN /\ StartsWith(text, MARKER)
               /\ EndsWith(text, PARA_SEP \o own)
               /\ Len(text) >= Len(MARKER) + Len(PARA_SEP) + Len(own)
               /\ Len(tail) <= TokensToChars(cfg.overlap_tokens)
               /\ EndsWith(overlapped[i - 1].text, tail)

-----------------------------------------------------------------------------
(* C9 *)

\* C9: the overlap stage returns as many chunks as it was given, in the same
\* order; page_start, page_end, section_path (and chunk_index) of every chunk
\* and the text of the first chunk are unchanged; every other chunk's text
\* ends with its complete original text; with overlap_tokens = 0 nothing
\* changes at all.
C9_OverlapAdditive ==
    OverlapDone =>
        /\ Len(overlapped) = Len(merged)
        /\ \A i \in 1..Len(merged) :
            /\ overlapped[i].page_start = merged[i].page_start
            /\ overlapped[i].page_end = merged[i].page_end
            /\ overlapped[i].section_path = merged[i].section_path
            /\ overlapped[i].chunk_index = merged[i].chunk_index
            /\ EndsWith(overlapped[i].text, merged[i].text)
            /\ i = 1 => overlapped[i].text = merged[i].text
        /\ cfg.overlap_tokens = 0 => overlapped = merged

\* a run in which the overlap stage rewrote the text of a chunk
C9_Witness ==
    /\ pc = "done"
    /\ cfg.overlap_tokens > 0
    /\ Len(merged) >= 3
    /\ \E i \in 2..Len(merged) : overlapped[i].text # merged[i].text

-----------------------------------------------------------------------------
(* C11 *)

Normalized == pc # "chunk"

\* C11: _normalize_blocks applied to its own output returns it unchanged: the
\* same blocks, with the same text, page and order.
C11_NormalizeIdempotent ==
    Normalized => _normalize_blocks(nblocks) = nblocks

\* a block that survives with a hyphen break joined and its text changed
C11_Witness ==
    /\ Normalized
    /\ Len(nblocks) = 1
    /\ FixHyphenation(NormalizeLineEndings(input[1].text)) # NormalizeLineEndings(input[1].text)
    /\ nblocks[1].text # input[1].text

-----------------------------------------------------------------------------
(* C12 *)

\* the paragraph of n sentences S_MID
RepeatedSentences(n) == Join([i \in 1..n |-> S_MID], <<SP>>)

\* C12: an oversized unit does not fail the document. _split_oversized
\* returns pieces of at most max_tokens each, which in order hold the unit's
\* text up to whitespace; a text without a sentence boundary is cut into
\* slices of int(max_tokens * 3.6) characters that concatenate to it exactly;
\* and a paragraph of a repeated sentence beyond max_tokens is returned as
\* several chunks that hold its sentences in order.
C12_OversizedSplit ==
    /\ raised = FALSE
    /\ UnitsBuilt =>
          \A j \in 1..Len(units) :
              Oversized(units[j]) =>
                  LET text == units[j].text
                      pieces == _split_oversized(cfg, text)
                  IN /\ pieces # <<>>
                     /\ \A p \in 1..Len(pieces) :
                           _estimate_tokens(pieces[p]) <= cfg.max_tokens
                     /\ NonWs(Join(pieces, <<>>)) = NonWs(text)
                     /\ Len(SplitSentences(text)) <= 1 =>
                           /\ Join(pieces, <<>>) = text
                           /\ \A p \in 1..(Len(pieces) - 1) :
                                 Len(pieces[p]) = TokensToChars(cfg.max_tokens)
    /\ \A n \in 3..(MaxSentences + 1) :
          (pc = "done" /\ Len(units) = 1 /\ units[1].text = RepeatedSentences(n)) =>
              /\ Len(out) >= 2
              /\ Content(out) = Content(units)

\* a paragraph of three sentences, the second too long on its own and
\* hard-sliced, returned as three chunks or more
C12_Witness ==
    /\ pc = "done"
    /\ Len(units) = 1
    /\ Len(SplitSentences(units[1].text)) = 3
    /\ SplitSentences(units[1].text)[2] = S_LONG
    /\ Len(_split_oversized(cfg, units[1].text)) >= 4
    /\ Len(out) >= 3

-----------------------------------------------------------------------------
(* C13 *)

\* a heading unit whose first line matches one of the three strong patterns
StrongHeadingUnit(unit) ==
    unit.kind = "heading" /\ MatchesStrongHeading(HeadingText(unit.text))

\* the input yields exactly two units, both strong headings within max_tokens
TwoStrongHeadings ==
    /\ Len(units) = 2
    /\ \A j \in 1..2 : StrongHeadingUnit(units[j]) /\ ~Oversized(units[j])

\* C13: two units, both strong headings of at most max_tokens each, are
\* returned as exactly two chunks, the first holding the first heading and
\* the second the second, also when both are below min_tokens.
C13_TwoHeadingsTwoChunks ==
    (pc = "done" /\ TwoStrongHeadings) =>
        /\ Len(out) = 2
        /\ out[1].text = units[1].text
        /\ out[2].text = units[2].text

\* two strong headings below min_tokens that together fit in max_tokens
C13_Witness ==
    /\ pc = "done"
    /\ TwoStrongHeadings
    /\ \A j \in 1..2 : _estimate_tokens(units[j].text) < cfg.min_tokens
    /\ _estimate_tokens(units[1].text \o PARA_SEP \o units[2].text) <= cfg.max_tokens
    /\ Len(out) = 2

-----------------------------------------------------------------------------
(* C14 *)

\* the locals of _pack_units when unit k arrives
PackerBefore(k) == PackLoop(cfg, PackStart(units), SubSeq(units, 1, k - 1))

\* the locals of _pack_units when unit k has been handled
PackerAfter(k) == PackUnit(cfg, PackerBefore(k), units[k])

\* the unit fits in the buffer within max_tokens
Fits(st, unit) == st.current_tokens + _estimate_tokens(unit.text) <= cfg.max_tokens

\* the unit was appended to the buffer and no chunk was emitted
Appended(st, after, unit) ==
    /\ after.chunks = st.chunks
    /\ after.current_texts = Append(st.current_texts, unit.text)

\* the buffer was emitted as one chunk and the unit starts the next buffer
StartsNewChunk(st, after, unit) ==
    /\ Len(after.chunks) = Len(st.chunks) + 1
    /\ after.chunks[Len(after.chunks)].text = Strip(Join(st.current_texts, PARA_SEP))
    /\ after.current_texts = <<unit.text>>

RECURSIVE TotalTokens(_)
TotalTokens(unit_list) ==
    IF unit_list = <<>> THEN 0
    ELSE _estimate_tokens(Head(unit_list).text) + TotalTokens(Tail(unit_list))

PackingDone == pc \in {"postprocess", "apply_overlap", "assign_indices", "done"}

OnlyListItems == units # <<>> /\ \A j \in 1..Len(units) : units[j].kind = "list_item"

\* C14: with a buffer that holds target_tokens or more, an incoming
\* paragraph starts a new chunk, while an incoming list item or table that
\* fits within max_tokens is appended; below target_tokens a paragraph that
\* fits is appended too. An input of list items only, together under
\* target_tokens, is packed and returned as one chunk that holds them all.
C14_TargetFlushOnlyAtBoundary ==
    /\ UnitsBuilt =>
          \A k \in 1..Len(units) :
              LET st == PackerBefore(k)
                  unit == units[k]
                  after == PackerAfter(k)
              IN st.current_texts # <<>> =>
                    /\ (unit.kind \in {"list_item", "table_like"} /\ Fits(st, unit)) =>
                          Appended(st, after, unit)
                    /\ (/\ unit.kind = "paragraph"
                        /\ st.current_tokens >= cfg.target_tokens
                        /\ ~Oversized(unit)) =>
                          StartsNewChunk(st, after, unit)
                    /\ (/\ unit.kind = "paragraph"
                        /\ st.current_tokens < cfg.target_tokens
                        /\ Fits(st, unit)) =>
                          Appended(st, after, unit)
    /\ (PackingDone /\ OnlyListItems /\ TotalTokens(units) < cfg.target_tokens) =>
          /\ Len(packed) = 1
          /\ packed[1].text = Join([j \in 1..Len(units) |-> units[j].text], PARA_SEP)
          /\ pc = "done" => Len(out) = 1 /\ out[1].text = packed[1].text

\* a list item arrives at a buffer that holds target_tokens and is appended
C14_Witness ==
    /\ pc = "done"
    /\ \E k \in 1..Len(units) :
          /\ units[k].kind = "list_item"
          /\ PackerBefore(k).current_tokens >= cfg.target_tokens
          /\ Appended(PackerBefore(k), PackerAfter(k), units[k])
          /\ \E c \in 1..Len(out) : out[c].text = Join(PackerAfter(k).current_texts, PARA_SEP)

-----------------------------------------------------------------------------
(* C15 *)

\* C15: two invocations with equal block lists on one instance return equal
\* chunk lists, whatever other invocation runs before, between or during them.
C15_Deterministic ==
    \A i, j \in Invocations :
        (pc[i] = "done" /\ pc[j] = "done" /\ input[i] = input[j]) => out[i] = out[j]

\* two invocations on one document have returned its chunks while a third,
\* on another document, is inside the packer's loop
C15_Witness ==
    /\ pc[1] = "done"
    /\ pc[3] = "done"
    /\ input[1] = input[3]
    /\ Len(out[1]) >= 2
    /\ input[2] # input[1]
    /\ pc[2] = "pack_loop"
    /\ packed.frames[Frame(2)].k = 2

-----------------------------------------------------------------------------
(* C16 *)

\* C16: invocations interleaved at any step each return what chunk() returns
\* for their document when run alone, and inside the packer's loop the
\* locals of each are what its own units so far make them.
C16_Isolated ==
    \A i \in Invocations :
        /\ pc[i] = "done" => out[i] = chunk(cfg, input[i])
        /\ pc[i] = "pack_loop" =>
              LET frame == packed.frames[Frame(i)]
              IN /\ frame.k \in 1..(Len(units[i]) + 1)
                 /\ frame.st = PackLoop(cfg, PackStart(units[i]),
                                        SubSeq(units[i], 1, frame.k - 1))

\* three invocations on three different documents have all returned chunks
C16_Witness ==
    /\ \A i \in Invocations : pc[i] = "done" /\ out[i] # <<>>
    /\ \A i, j \in Invocations : i # j => input[i] # input[j]

-----------------------------------------------------------------------------
(* C17 *)

\* the list merged when chunk k of the packer's output is reached
MergedBefore(k) == MergeLoop(cfg, <<packed[1]>>, SubSeq(packed, 2, k - 1))

\* the list merged when chunk k has been handled
MergedAfter(k) == MergeStep(cfg, MergedBefore(k), packed[k])

\* the first line of the chunk matches one of _HEADING_PATTERNS
BeginsWithHeadingPattern(text) ==
    \/ MatchesStrongHeading(HeadingText(text))
    \/ MatchesWeakPattern(HeadingText(text))

\* the condition under which chunk k is merged into the chunk before it
Mergeable(k) ==
    LET prev == MergedBefore(k)[Len(MergedBefore(k))]
    IN /\ _estimate_tokens(packed[k].text) < cfg.min_tokens
       /\ _estimate_tokens(prev.text \o PARA_SEP \o packed[k].text) <= cfg.max_tokens
       /\ ~BeginsWithHeadingPattern(packed[k].text)

\* chunk k was merged into the last chunk of the list
MergedInto(k) ==
    LET before == MergedBefore(k)
        prev == before[Len(before)]
        after == MergedAfter(k)
        last == after[Len(after)]
    IN /\ Len(after) = Len(before)
       /\ SubSeq(after, 1, Len(after) - 1) = SubSeq(before, 1, Len(before) - 1)
       /\ last.text = prev.text \o PARA_SEP \o packed[k].text
       /\ last.page_start = prev.page_start
       /\ last.page_end = (IF packed[k].page_end > prev.page_end
                           THEN packed[k].page_end ELSE prev.page_end)
       /\ last.section_path = (IF Len(packed[k].section_path) > Len(prev.section_path)
                               THEN packed[k].section_path ELSE prev.section_path)
       /\ _estimate_tokens(last.text) <= cfg.max_tokens

\* C17: the postprocessor merges a chunk into the chunk before it exactly
\* when it is below min_tokens, the two texts joined by a blank line are
\* within max_tokens and its first line matches no heading pattern; a merge
\* joins the texts, keeps page_start, takes the larger page_end and the
\* longer section_path; any other chunk is kept as it is; the first chunk is
\* never merged into its successor.
C17_MergeRule ==
    (PackingDone /\ pc # "postprocess" /\ packed # <<>>) =>
        /\ \A k \in 2..Len(packed) :
              IF Mergeable(k) THEN MergedInto(k)
              ELSE MergedAfter(k) = Append(MergedBefore(k), packed[k])
        /\ merged # <<>>
        /\ merged[1].page_start = packed[1].page_start
        /\ SubSeq(merged[1].text, 1, Len(packed[1].text)) = packed[1].text

-----------------------------------------------------------------------------
(* C18 *)

\* C18: a heading that is not the first unit finds a non-empty buffer and
\* flushes it as it is, whatever it holds, and the buffer restarts with the
\* heading's page_start and section_path; in the packer's output the heading
\* is the first content of a chunk that carries its page_start and
\* section_path.
C18_HeadingStartsPackerChunk ==
    /\ UnitsBuilt =>
          \A k \in 2..Len(units) :
              units[k].kind = "heading" =>
                  LET st == PackerBefore(k)
                      after == PackerAfter(k)
                  IN /\ st.current_texts # <<>>
                     /\ Len(after.chunks) > Len(st.chunks)
                     /\ SubSeq(after.chunks, 1, Len(st.chunks) + 1) = _flush(st).chunks
                     /\ after.current_page_start = units[k].page_start
                     /\ after.current_section_path = units[k].section_path
                     /\ ~Oversized(units[k]) =>
                           /\ Len(after.chunks) = Len(st.chunks) + 1
                           /\ after.current_texts = <<units[k].text>>
    /\ PackingDone =>
          \A k \in 2..Len(units) :
              units[k].kind = "heading" =>
                  \E c \in 1..Len(packed) :
                      /\ StartOffset(packed, c) = StartOffset(units, k)
                      /\ packed[c].page_start = units[k].page_start
                      /\ packed[c].section_path = units[k].section_path
                      /\ ~Oversized(units[k]) => StartsWith(packed[c].text, units[k].text)

\* a heading on a later page arrives at a buffer below min_tokens, and the
\* packer's output has a chunk for the buffer and a chunk that starts at the
\* heading's page
C18_Witness ==
    /\ PackingDone
    /\ \E k \in 2..Len(units) :
          /\ units[k].kind = "heading"
          /\ PackerBefore(k).current_tokens < cfg.min_tokens
          /\ units[k].page_start > PackerBefore(k).current_page_end
          /\ units[k].section_path # PackerBefore(k).current_section_path
          /\ \E c \in 2..Len(packed) :
                /\ packed[c].page_start = units[k].page_start
                /\ StartsWith(packed[c].text, units[k].text)
                /\ _estimate_tokens(packed[c - 1].text) < cfg.min_tokens

-----------------------------------------------------------------------------
(* C19 *)

\* the pieces of unit j
PiecesOf(j) == _split_oversized(cfg, units[j].text)

\* the locals of _pack_units when piece p of the oversized unit j arrives
PiecesBefore(j, p) ==
    LET s2 == OverflowFlush(cfg, HeadingFlush(PackerBefore(j), units[j]), units[j])
    IN FeedPieces(cfg,
                  IF s2.current_texts # <<>> THEN FlushAt(s2, units[j]) ELSE s2,
                  units[j], SubSeq(PiecesOf(j), 1, p - 1))

\* and when it has been added
PiecesAfter(j, p) == FeedPieces(cfg, PiecesBefore(j, p), units[j], <<PiecesOf(j)[p]>>)

\* C19: before a piece of an oversized unit is added, the buffer is flushed
\* exactly when the piece would take the running token count above
\* max_tokens and the buffer holds min_tokens or more; otherwise the piece is
\* added to the buffer as it is.
C19_PieceFlushNeedsMin ==
    UnitsBuilt =>
        \A j \in 1..Len(units) :
            Oversized(units[j]) =>
                \A p \in 1..Len(PiecesOf(j)) :
                    LET before == PiecesBefore(j, p)
                        after == PiecesAfter(j, p)
                        piece == PiecesOf(j)[p]
                    IN IF /\ before.current_tokens + _estimate_tokens(piece) > cfg.max_tokens
                          /\ before.current_tokens >= cfg.min_tokens
                       THEN /\ Len(after.chunks) = Len(before.chunks) + 1
                            /\ after.current_texts = <<piece>>
                       ELSE /\ after.chunks = before.chunks
                            /\ after.current_texts = Append(before.current_texts, piece)

-----------------------------------------------------------------------------
(* C20 *)

\* unit k is not a heading, is within max_tokens on its own and does not fit
\* into the non-empty buffer it finds
Overflows(k) ==
    /\ units[k].kind # "heading"
    /\ ~Oversized(units[k])
    /\ PackerBefore(k).current_texts # <<>>
    /\ ~Fits(PackerBefore(k), units[k])

\* unit k overflows a buffer below min_tokens
PassThrough(k) == Overflows(k) /\ PackerBefore(k).current_tokens < cfg.min_tokens

\* C20: a unit that is not a heading, fits max_tokens on its own and would
\* take the running token count above max_tokens starts a new chunk when the
\* buffer holds min_tokens or more and is appended without a flush when it
\* holds less; the running token count stays below max_tokens + min_tokens,
\* between the pieces of an oversized unit too, and two units appended in
\* this way never share a chunk.
C20_PassThroughBounded ==
    UnitsBuilt =>
        /\ \A k \in 1..Len(units) :
              /\ Overflows(k) =>
                    IF PackerBefore(k).current_tokens >= cfg.min_tokens
                    THEN StartsNewChunk(PackerBefore(k), PackerAfter(k), units[k])
                    ELSE Appended(PackerBefore(k), PackerAfter(k), units[k])
              /\ PackerAfter(k).current_tokens < cfg.max_tokens + cfg.min_tokens
              /\ Oversized(units[k]) =>
                    \A p \in 1..Len(PiecesOf(k)) :
                        PiecesAfter(k, p).current_tokens < cfg.max_tokens + cfg.min_tokens
        /\ \A k1, k2 \in 1..Len(units) :
              (k1 < k2 /\ PassThrough(k1) /\ PassThrough(k2)) =>
                  Len(PackerBefore(k2).chunks) > Len(PackerBefore(k1).chunks)

\* a unit of max_tokens was appended to a buffer below min_tokens, and the
\* chunk was returned
C20_Witness ==
    /\ pc = "done"
    /\ \E k \in 1..Len(units) :
          /\ PassThrough(k)
          /\ PackerAfter(k).current_tokens > cfg.max_tokens
          /\ \E c \in 1..Len(out) :
                out[c].text = Join(PackerAfter(k).current_texts, PARA_SEP)

-----------------------------------------------------------------------------
(* C21 *)

Kinds == {"table_like", "list_item", "heading", "paragraph"}

\* the first line of a block, as _classify_kind takes it
FirstLine(text) == Strip(SplitLines(Strip(text))[1])

\* the block has two lines or more that match the multi-column pattern
TableBlock(text) ==
    LET lines == SplitLines(Strip(text))
    IN Cardinality({i \in 1..Len(lines) : MatchesTable(lines[i])}) >= 2

\* the block's first line is a heading by a strong pattern or by the weak rule
HeadingBlock(text) ==
    \/ MatchesStrongHeading(FirstLine(text))
    \/ WeakHeading(SplitLines(Strip(text)), FirstLine(text))

\* C21: every unit has one of the four kinds; a block with two table lines is
\* table_like whatever its first line is; otherwise a block whose first line
\* starts with a list marker is list_item, also when the line matches a
\* heading pattern; otherwise a heading block is heading; any other block is
\* paragraph.
C21_FirstRuleWins ==
    UnitsBuilt =>
        \A j \in 1..Len(units) :
            LET text == units[j].text
                kind == units[j].kind
            IN /\ kind \in Kinds
               /\ TableBlock(text) => kind = "table_like"
               /\ (~TableBlock(text) /\ MatchesList(FirstLine(text))) => kind = "list_item"
               /\ (~TableBlock(text) /\ ~MatchesList(FirstLine(text)) /\ HeadingBlock(text)) =>
                     kind = "heading"
               /\ (~TableBlock(text) /\ ~MatchesList(FirstLine(text)) /\ ~HeadingBlock(text)) =>
                     kind = "paragraph"

\* a list item whose first line matches the Roman heading pattern
C21_Witness ==
    /\ UnitsBuilt
    /\ \E j \in 1..Len(units) :
          /\ units[j].kind = "list_item"
          /\ MatchesStrongHeading(FirstLine(units[j].text))
          /\ ~TableBlock(units[j].text)

-----------------------------------------------------------------------------
(* C22 *)

\* the weak rule as the claim states it: at most 2 lines, a first line of at
\* most 80 characters, all upper-case, not ending in a period, with a letter
WeakRule(text) ==
    LET first_line == FirstLine(text)
    IN /\ Len(SplitLines(Strip(text))) <= WEAK_MAX_LINES
       /\ Len(first_line) >= 1
       /\ Len(first_line) <= WEAK_MAX_LEN
       /\ first_line = ToUpper(first_line)
       /\ ~EndsWith(first_line, <<".">>)
       /\ \E i \in 1..Len(first_line) : first_line[i] \in Letters

\* C22: a block that is neither table_like nor list_item and matches no
\* strong heading pattern is a heading exactly when the weak rule holds, for
\* a first line of any length from 1 to 80.
C22_WeakHeadingRule ==
    UnitsBuilt =>
        \A j \in 1..Len(units) :
            (/\ ~TableBlock(units[j].text)
             /\ ~MatchesList(FirstLine(units[j].text))
             /\ ~MatchesStrongHeading(FirstLine(units[j].text))) =>
                (units[j].kind = "heading" <=> WeakRule(units[j].text))

-----------------------------------------------------------------------------
(* C23 *)

TopKeywords == {KW_GLAVA, KW_RAZDEL, KW_BOBI}

MidKeywords == {KW_STATYA, KW_MODDAI}

\* the line begins with a dotted numeric prefix followed by whitespace
DottedPrefix(line) ==
    DottedEnd(line, 1) > 0 /\ RunLen(line, DottedEnd(line, 1) + 1, WS) >= 1

\* C23: the level of a heading is taken from its first line: 0 for a
\* top-level keyword with a number, 1 for a mid-level keyword with a number,
\* the number of dots of a dotted numeric prefix followed by whitespace, and
\* 2 for any other heading, every heading by the weak upper-case rule and
\* every Roman-numeral heading included; it is never negative, and the
\* heading stack is cut to it.
C23_HeadingLevel ==
    UnitsBuilt =>
        \A j \in 1..Len(units) :
            units[j].kind = "heading" =>
                LET line == FirstLine(units[j].text)
                    level == _heading_level(line)
                    keyword == KeywordNumber(line, TopKeywords \cup MidKeywords)
                IN /\ level >= 0
                   /\ units[j].section_path = Append(Prefix(PathBefore(j), level), line)
                   /\ KeywordNumber(line, TopKeywords) => level = 0
                   /\ (~KeywordNumber(line, TopKeywords) /\ KeywordNumber(line, MidKeywords)) =>
                         level = 1
                   /\ (~keyword /\ DottedPrefix(line)) =>
                         level = DotCount(SubSeq(line, 1, DottedEnd(line, 1)))
                   /\ (~keyword /\ ~DottedPrefix(line)) => level = 2
                   /\ ~MatchesStrongHeading(line) => level = 2
                   /\ MatchesRoman(line) => level = 2

-----------------------------------------------------------------------------
(* C24: the sliding window of RateLimiter                                  *)

\* the requests of a client that is_allowed answered True with a timestamp
\* in (t - window, t]
AllowedIn(client_id, t) ==
    Cardinality({i \in 1..Len(limiter.allowed[client_id]) :
                    /\ limiter.allowed[client_id][i] > t - limiter.self.window
                    /\ limiter.allowed[client_id][i] <= t})

\* one request of client_id: refused exactly when the window is full, a
\* refused request is not recorded, and no other client is touched
RequestIsFair(client_id) ==
    /\ limiter'.status = 429 <=> AllowedIn(client_id, limiter.now) = limiter.self.requests
    /\ limiter'.status = 200 <=> AllowedIn(client_id, limiter.now) < limiter.self.requests
    /\ limiter'.status = 429 =>
          /\ limiter'.allowed = limiter.allowed
          /\ Len(limiter'.self.clients[client_id]) <= Len(limiter.self.clients[client_id])
          /\ \A i \in 1..Len(limiter'.self.clients[client_id]) :
                limiter'.self.clients[client_id][i] < limiter.now
                    \/ AllowedIn(client_id, limiter.now) > 0
    /\ limiter'.status = 200 =>
          limiter'.allowed[client_id] = Append(limiter.allowed[client_id], limiter.now)
    /\ \A other \in Clients \ {client_id} :
          /\ limiter'.self.clients[other] = limiter.self.clients[other]
          /\ limiter'.allowed[other] = limiter.allowed[other]
          /\ is_allowed(limiter'.self, other, limiter.now).result
                = is_allowed(limiter.self, other, limiter.now).result

\* C24: for every client and every instant t, at most `requests' of its
\* requests that is_allowed answered True have a timestamp in
\* (t - window, t]; check_rate_limit answers 429 exactly when the client
\* already has `requests' allowed requests in the current window; a refused
\* request is not recorded; and a request of one client changes neither the
\* record nor the answer of another client.
C24_SlidingWindow ==
    /\ [](\A client_id \in Clients : \A t \in Times :
              AllowedIn(client_id, t) <= limiter.self.requests)
    /\ [][\A client_id \in Clients :
              CheckRateLimit(client_id) => RequestIsFair(client_id)]_vars

\* c1 is refused at an instant where c2 is served, after the window of c1
\* has slid past an earlier allowed request
C24_Witness ==
    /\ limiter.status = 429
    /\ limiter.client = "c1"
    /\ Len(limiter.allowed["c1"]) > limiter.self.requests
    /\ \E i \in 1..Len(limiter.allowed["c2"]) : limiter.allowed["c2"][i] = limiter.now

-----------------------------------------------------------------------------
(* C25 *)

\* chunk k of the output holds text of unit j
Contains(k, j) ==
    /\ StartOffset(units, j) < EndOffset(out, k)
    /\ StartOffset(out, k) < EndOffset(units, j)

\* C25: without overlap, a returned chunk has the section_path of every unit
\* whose text it holds, also when the postprocessor merged chunks.
C25_SectionPathEnclosesChunk ==
    (pc = "done" /\ cfg.overlap_tokens = 0) =>
        \A k \in 1..Len(out) : \A j \in 1..Len(units) :
            Contains(k, j) => out[k].section_path = units[j].section_path

-----------------------------------------------------------------------------
(* C26 *)

\* C26: in the section_path of every unit the heading levels increase
\* strictly from the first entry to the last.
C26_LevelsIncrease ==
    UnitsBuilt =>
        \A j \in 1..Len(units) :
            \A a, b \in 1..Len(units[j].section_path) :
                a < b => _heading_level(units[j].section_path[a])
                            < _heading_level(units[j].section_path[b])

-----------------------------------------------------------------------------
(* C27 *)

\* what the overlap stage put between the marker and the own text of chunk k
OverlapPrefix(k) ==
    SubSeq(overlapped[k].text, Len(MARKER) + 1,
           Len(overlapped[k].text) - Len(merged[k].text) - Len(PARA_SEP))

\* C27: with overlap_tokens > 0, the overlap written before chunk k is a
\* tail of the text chunk k-1 had before the overlap stage: it holds none of
\* the marker or of the overlap that chunk k-1 itself received.
C27_OverlapFromOwnText ==
    (pc = "done" /\ cfg.overlap_tokens > 0) =>
        \A k \in 2..Len(merged) :
            overlapped[k].text # merged[k].text =>
                EndsWith(merged[k - 1].text, OverlapPrefix(k))

-----------------------------------------------------------------------------
(* C28 *)

\* the units of which chunk k of the output holds text
UnitsIn(k) == {j \in 1..Len(units) : Contains(k, j)}

SetMax(S) == CHOOSE x \in S : \A y \in S : y <= x

NonDecreasingPages ==
    \A i \in 1..Len(input) : \A j \in 1..Len(input) :
        i < j => input[i].page <= input[j].page

\* C28: when the pages of the blocks do not decrease along the input list,
\* every returned chunk has the page of the first unit it holds as page_start
\* and the page of the last unit it holds as page_end, so that
\* 1 <= page_start <= page_end and the page of every unit it holds lies in
\* between; through heading flushes, oversized splitting and merges.
C28_PageRange ==
    (pc = "done" /\ cfg.overlap_tokens = 0 /\ NonDecreasingPages) =>
        \A k \in 1..Len(out) :
            /\ UnitsIn(k) # {}
            /\ out[k].page_start = units[SetMin(UnitsIn(k))].page_start
            /\ out[k].page_end = units[SetMax(UnitsIn(k))].page_end
            /\ 1 <= out[k].page_start
            /\ out[k].page_start <= out[k].page_end
            /\ \A j \in UnitsIn(k) :
                  /\ out[k].page_start <= units[j].page_start
                  /\ units[j].page_end <= out[k].page_end

\* a merged chunk that spans two pages, after a heading flush, in a document
\* with an oversized unit
C28_Witness ==
    /\ Finished
    /\ cfg.overlap_tokens = 0
    /\ Len(merged) < Len(packed)
    /\ \E k \in 1..Len(out) : out[k].page_start < out[k].page_end
    /\ \E j \in 2..Len(units) : units[j].kind = "heading"
    /\ \E j \in 1..Len(units) : Oversized(units[j])

-----------------------------------------------------------------------------
(* C29 *)

Packed == pc \in {"postprocess", "apply_overlap", "assign_indices", "done"}

\* C29: every chunk the packer emits and every chunk chunk() returns has text
\* that is not blank; the packer's chunks hold the text of the units once
\* each and in order, so no flush emits an empty buffer or the same buffer
\* twice; and a document of which a block survives normalization and
\* header/footer removal returns at least one chunk.
C29_NoEmptyChunk ==
    /\ Packed =>
          /\ \A k \in 1..Len(packed) : NonWs(packed[k].text) # <<>>
          /\ Content(packed) = Content(units)
    /\ pc = "done" =>
          /\ \A k \in 1..Len(out) : NonWs(out[k].text) # <<>>
          /\ fblocks # <<>> => Len(out) >= 1

\* a heading arrives at a buffer that holds target_tokens, so that Rule 1
\* empties the buffer before the flushes after it are tried, in a document
\* that holds an oversized unit
C29_Witness ==
    /\ Finished
    /\ Len(out) >= 2
    /\ \E j \in 2..Len(units) :
          /\ units[j].kind = "heading"
          /\ PackerBefore(j).current_tokens >= cfg.target_tokens
    /\ \E j \in 1..Len(units) : Oversized(units[j])

-----------------------------------------------------------------------------
(* C30 *)

\* C30: no step of chunk() changes the caller's block list: its length, its
\* order and the text, page and order of every block stay what they were.
C30_InputUnchanged == [][input' = input]_vars

\* a finished run whose normalization dropped or rewrote a block, whose
\* sub-paragraph splitting renumbered the orders and whose postprocessor
\* merged a chunk, with the input still what it was at the call
C30_Witness ==
    /\ Finished
    /\ nblocks # input
    /\ \E j \in 1..Len(units) : \A i \in 1..Len(input) :
          input[i].text = units[j].text => input[i].order # units[j].order
    /\ Len(merged) < Len(packed)

====
